---- MODULE Spec2Model ----
(***************************************************************************)
(* A model of cmdFuscator: the modifier registry (engine/modifiers), the   *)
(* tokenizer, the renderer and the modifier pipeline (engine/engine.go),   *)
(* and the modifiers' Apply methods.                                       *)
(*                                                                         *)
(* Strings are sequences of runes, a rune being a one-character string.    *)
(* Slices of tokens are references (addresses) into `heap`, so that        *)
(* aliasing between a caller's slice and a returned slice is visible.      *)
(***************************************************************************)
EXTENDS Integers, Sequences, FiniteSets, TLC

VARIABLES
    registry,   \* modifier.go: var registry map[string]Modifier
    order,      \* modifier.go: var order []string
    panicked,   \* the process died in a panic of Register
    regArg,     \* the argument of the most recent Register call ("" if none)
    pc,         \* per call: "idle", "loop" (in the range loop), "done" (returned);
                \* "tokenized" when Tokenize alone was called
    command,    \* per call: the command argument
    pf,         \* per call: the *models.ProfileFile argument
    enabled,    \* per call: the enabled argument
    mods,       \* per call: the slice modifiers.All() returned at the range statement
    idx,        \* per call: the position of the range loop in mods
    tokens,     \* per call: the local variable tokens (a slice: an address of heap)
    result,     \* per call: the local variable result / the returned ObfuscateResult
    err,        \* per call: the returned error
    applyLog,   \* per call: the Apply invocations made so far, in order
    heap,       \* the backing arrays of the token slices alive
    test,       \* a direct caller of Apply: its locals, and where it stands
    stdout,     \* the lines written to os.Stdout since the caller last looked
    view,       \* the most recent call of ModifierSummary, DefaultEnabled, All or Get
    tui         \* the terminal program: its tui.Model and the tea.Cmd last returned

vars == <<registry, order, panicked, regArg, pc, command, pf, enabled, mods, idx,
          tokens, result, err, applyLog, heap, test, stdout, view, tui>>

registryVars == <<registry, order, panicked, regArg>>
callVars == <<pc, command, pf, enabled, mods, idx, tokens, result, err, applyLog, heap>>

(***************************************************************************)
(* Bounds of the model.                                                    *)
(***************************************************************************)
MaxCmdLen == 3
MaxRegistered == 3
MaxRoundTripLen == 5
MaxTokens == 2
MaxFields == 3
MaxRenderTokens == 2

(***************************************************************************)
(* Generic helpers.                                                        *)
(***************************************************************************)
EmptyMap == [x \in {} |-> TRUE]

Restrict(f, S) == [x \in (DOMAIN f) \cap S |-> f[x]]

BoundedSeq(S, n) == UNION {[1..k -> S] : k \in 0..n}

Range(s) == {s[i] : i \in DOMAIN s}

RECURSIVE IsSubSeq(_, _)
IsSubSeq(s, t) ==
    IF s = <<>> THEN TRUE
    ELSE IF t = <<>> THEN FALSE
    ELSE IF Head(s) = Head(t) THEN IsSubSeq(Tail(s), Tail(t))
    ELSE IsSubSeq(s, Tail(t))

IsPrefix(s, t) == Len(s) <= Len(t) /\ SubSeq(t, 1, Len(s)) = s

(***************************************************************************)
(* Runes: unicode.IsSpace, IsUpper, ToUpper, ToLower on the model's        *)
(* alphabet.                                                               *)
(***************************************************************************)
IsSpace(r) == r \in {" ", "\t"}

IsUpper(r) == r \in {"A", "B"}

\* unicode.IsLetter: the small roman numeral one (U+2170) is a number, not a letter.
IsLetter(r) == r \in {"a", "b", "A", "B"}

\* unicode.ToUpper / unicode.ToLower: U+2170 has the upper case mapping U+2160.
ToUpper(r) == CASE r = "a" -> "A" [] r = "b" -> "B" [] r = "u2170" -> "u2160" [] OTHER -> r

ToLower(r) == CASE r = "A" -> "a" [] r = "B" -> "b" [] r = "u2160" -> "u2170" [] OTHER -> r

\* A string is the sequence of its characters; a byte that is no valid UTF-8
\* is the element InvalidByte. []rune(s) decodes such a byte as U+FFFD, and
\* string(runes) encodes every rune, U+FFFD included, as itself.
InvalidByte == "xFF"

RuneError == "uFFFD"

Runes(s) == [i \in 1..Len(s) |-> IF s[i] = InvalidByte THEN RuneError ELSE s[i]]

String(runes) == runes

(***************************************************************************)
(* models.TokenType and models.Token.                                      *)
(***************************************************************************)
TokenTypeCommand == "command"
TokenTypeArgument == "argument"
TokenTypeValue == "value"
TokenTypePath == "path"
TokenTypeURL == "url"

TokenTypes == {TokenTypeCommand, TokenTypeArgument, TokenTypeValue, TokenTypePath, TokenTypeURL}

Token(t, v) == [Type |-> t, Value |-> v]

(***************************************************************************)
(* Errors are chains of wrapped errors, outermost first; nil is the empty  *)
(* chain. errors.Is walks the chain.                                       *)
(***************************************************************************)
ErrNil == <<>>

ErrNotImplemented == <<"not implemented">>

ErrorsIs(e, target) == \E i \in DOMAIN e : e[i] = target[1]

Wrap(msg, e) == <<msg>> \o e

(***************************************************************************)
(* strconv.ParseFloat(s, 64) and strconv.Atoi on the strings the model's   *)
(* configurations use. A float is its value in tenths, or NaN; a failed    *)
(* parse returns a *strconv.NumError.                                      *)
(***************************************************************************)
NumError == <<"strconv.NumError">>

ParseFloat(s) ==
    CASE s = "0.0"  -> [err |-> ErrNil, nan |-> FALSE, tenths |-> 0]
      [] s = "0.5"  -> [err |-> ErrNil, nan |-> FALSE, tenths |-> 5]
      [] s = "1.0"  -> [err |-> ErrNil, nan |-> FALSE, tenths |-> 10]
      [] s = "1.5"  -> [err |-> ErrNil, nan |-> FALSE, tenths |-> 15]
      [] s = "-0.5" -> [err |-> ErrNil, nan |-> FALSE, tenths |-> -5]
      [] s = "NaN"  -> [err |-> ErrNil, nan |-> TRUE, tenths |-> 0]
      [] OTHER      -> [err |-> NumError, nan |-> FALSE, tenths |-> 0]

\* Go's < on float64: false whenever an operand is NaN.
FloatLess(a, b) == ~a.nan /\ ~b.nan /\ a.tenths < b.tenths

Float(n) == [err |-> ErrNil, nan |-> FALSE, tenths |-> n]

Atoi(s) ==
    CASE s = "0"  -> [err |-> ErrNil, n |-> 0]
      [] s = "2"  -> [err |-> ErrNil, n |-> 2]
      [] s = "-1" -> [err |-> ErrNil, n |-> -1]
      [] OTHER    -> [err |-> NumError, n |-> 0]

\* rand.Float64() returns a value of [0.0, 1.0), in tenths.
RandDraws == {0, 9}

(***************************************************************************)
(* A json.RawMessage holding a modifier's configuration: either bytes that *)
(* json.Unmarshal rejects, or an object with the fields the Config structs *)
(* read (a field the struct does not declare is ignored).                  *)
(***************************************************************************)
RawConfig(a, p, c, o) ==
    [json |-> "object", AppliesTo |-> a, Probability |-> p, Characters |-> c, Offset |-> o]

BadJSON == [json |-> "invalid", AppliesTo |-> {}, Probability |-> "", Characters |-> <<>>, Offset |-> ""]

\* json.Unmarshal(cfg, cfgM): the error, and the struct as it is afterwards.
Unmarshal(cfg) ==
    IF cfg.json = "object"
    THEN [err |-> ErrNil, AppliesTo |-> cfg.AppliesTo, Probability |-> cfg.Probability,
          Characters |-> cfg.Characters, Offset |-> cfg.Offset]
    ELSE [err |-> <<"json.SyntaxError">>, AppliesTo |-> {}, Probability |-> "",
          Characters |-> <<>>, Offset |-> ""]

(***************************************************************************)
(* The modifiers. A modifier is named by its package; the two files that   *)
(* exist in an earlier, stub revision (random_case.go, unnamed/part_002)   *)
(* are modifiers of their own with the same Name().                        *)
(***************************************************************************)
InitOrder ==
    <<"charinsert", "filepath", "optionchar", "quoteinsert", "randomcase",
      "regex", "reorderargs", "sed", "shorthands", "urltransform">>

Modifiers == Range(InitOrder) \cup {"charinsert_stub", "randomcase_stub"}

Name(m) ==
    CASE m \in {"charinsert", "charinsert_stub"} -> "CharacterInsertion"
      [] m = "filepath"     -> "FilePathTransformer"
      [] m = "optionchar"   -> "OptionCharSubstitution"
      [] m = "quoteinsert"  -> "QuoteInsertion"
      [] m \in {"randomcase", "randomcase_stub"} -> "RandomCase"
      [] m = "regex"        -> "Regex"
      [] m = "reorderargs"  -> "ReorderArgs"
      [] m = "sed"          -> "Sed"
      [] m = "shorthands"   -> "Shorthands"
      [] m = "urltransform" -> "UrlTransformer"

Names == {Name(m) : m \in Modifiers}

Description(m) ==
    CASE m \in {"charinsert", "charinsert_stub"} ->
            "Insert invisible Unicode characters into tokens"
      [] m = "filepath"     -> "Add path traversal, swap slashes, or duplicate separators"
      [] m = "optionchar"   -> "Replace - or / with a lookalike Unicode option char"
      [] m = "quoteinsert"  -> "Insert empty quote pairs inside tokens"
      [] m \in {"randomcase", "randomcase_stub"} ->
            "Randomly flip UPPER/lower case per character"
      [] m = "regex"        -> "Apply regex find-and-replace substitutions"
      [] m = "reorderargs"  -> "Shuffle argument order (keeps flag-value pairs)"
      [] m = "sed"          -> "Replace chars with Unicode lookalikes via sed rules"
      [] m = "shorthands"   -> "Abbreviate flags to shortest unambiguous prefix"
      [] m = "urltransform" -> "Encode IPs and rewrite URL path structure"

(***************************************************************************)
(* The heap of token slices: heap[a] is the backing array of the slice at  *)
(* address a. make() takes the next free address.                          *)
(***************************************************************************)
\* An allocator that hands out the same backing array every time.
NewAddrShared(h) == 1

NewAddr(h) == Len(h) + 1

Alloc(h, toks) == Append(h, toks)

(***************************************************************************)
(* Apply of each modifier. h is the heap, t the address of the tokens      *)
(* argument, cfg the raw configuration and rnd the successive results of   *)
(* rand.Float64(). The result is the heap afterwards, the returned slice   *)
(* and the returned error.                                                 *)
(***************************************************************************)
ApplyResult(h, t, e) == [heap |-> h, tokens |-> t, err |-> e, printed |-> <<>>]

\* fmt.Println(label, v): one line on os.Stdout.
Println(label, v) == <<label, v>>

\* The stubs: return tokens, modifiers.ErrNotImplemented.
StubApply(h, t, cfg, rnd) == ApplyResult(h, t, ErrNotImplemented)

\* The number of runes of the tokens before index i whose type is in appliesTo:
\* the number of rand.Float64() calls RandomCase.Apply has made when it reaches i.
RECURSIVE DrawsBefore(_, _, _)
DrawsBefore(toks, appliesTo, i) ==
    IF i <= 1 THEN 0
    ELSE DrawsBefore(toks, appliesTo, i - 1)
         + (IF toks[i - 1].Type \in appliesTo THEN Len(toks[i - 1].Value) ELSE 0)

\* random_case.go:126-136: the runes of one eligible token after the flips.
FlipRunes(runes, rnd, base, probability) ==
    [charIdx \in 1..Len(runes) |->
        IF FloatLess(Float(rnd[base + charIdx]), probability)
        THEN IF IsUpper(runes[charIdx]) THEN ToLower(runes[charIdx])
             ELSE ToUpper(runes[charIdx])
        ELSE runes[charIdx]]

\* A RandomCase that marks every token it rewrites as a value.
RandomCaseApplyRetyping(h, t, cfg, rnd) ==
    LET out == NewAddr(h)
        h1 == Alloc(h, h[t])
        cfgM == Unmarshal(cfg)
        probability == ParseFloat(cfgM.Probability)
    IN  IF cfgM.err # ErrNil \/ probability.err # ErrNil
           \/ FloatLess(probability, Float(0)) \/ FloatLess(Float(10), probability)
        THEN ApplyResult(h1, t, <<"configuration">>)
        ELSE ApplyResult(
               [h1 EXCEPT ![out] =
                  [i \in 1..Len(h[t]) |->
                      IF h[t][i].Type \in cfgM.AppliesTo
                      THEN Token(TokenTypeValue,
                                 FlipRunes(h[t][i].Value, rnd,
                                           DrawsBefore(h[t], cfgM.AppliesTo, i),
                                           probability))
                      ELSE h1[out][i]]],
               out, ErrNil)

\* A RandomCase that rewrites the caller's slice and returns it.
RandomCaseApplyInPlace(h, t, cfg, rnd) ==
    LET cfgM == Unmarshal(cfg)
        probability == ParseFloat(cfgM.Probability)
    IN  IF cfgM.err # ErrNil \/ probability.err # ErrNil
           \/ FloatLess(probability, Float(0)) \/ FloatLess(Float(10), probability)
        THEN ApplyResult(h, t, <<"configuration">>)
        ELSE ApplyResult(
               [h EXCEPT ![t] =
                  [i \in 1..Len(h[t]) |->
                      IF h[t][i].Type \in cfgM.AppliesTo
                      THEN [h[t][i] EXCEPT
                              !.Value = FlipRunes(h[t][i].Value, rnd,
                                                  DrawsBefore(h[t], cfgM.AppliesTo, i),
                                                  probability)]
                      ELSE h[t][i]]],
               t, ErrNil)

\* A RandomCase that also upper-cases the tokens AppliesTo does not list.
RandomCaseApplyUpperRest(h, t, cfg, rnd) ==
    LET out == NewAddr(h)
        h1 == Alloc(h, h[t])
        cfgM == Unmarshal(cfg)
        probability == ParseFloat(cfgM.Probability)
    IN  IF cfgM.err # ErrNil \/ probability.err # ErrNil
           \/ FloatLess(probability, Float(0)) \/ FloatLess(Float(10), probability)
        THEN ApplyResult(h1, t, <<"configuration">>)
        ELSE ApplyResult(
               [h1 EXCEPT ![out] =
                  [i \in 1..Len(h[t]) |->
                      IF h[t][i].Type \in cfgM.AppliesTo
                      THEN [h[t][i] EXCEPT
                              !.Value = FlipRunes(h[t][i].Value, rnd,
                                                  DrawsBefore(h[t], cfgM.AppliesTo, i),
                                                  probability)]
                      ELSE [h[t][i] EXCEPT
                              !.Value = [j \in 1..Len(h[t][i].Value) |->
                                            ToUpper(h[t][i].Value[j])]]]],
               out, ErrNil)

RandomCaseApply(h, t, cfg, rnd) ==
    LET out == NewAddr(h)
        h1 == Alloc(h, h[t])
        cfgM == Unmarshal(cfg)
        probability == ParseFloat(cfgM.Probability)
    IN  IF cfgM.err # ErrNil
        THEN ApplyResult(h1, t, Wrap("unmarshal config", cfgM.err))
        ELSE IF probability.err # ErrNil
        THEN ApplyResult(h1, t, Wrap("parse probability", probability.err))
        ELSE IF FloatLess(probability, Float(0)) \/ FloatLess(Float(10), probability)
        THEN ApplyResult(h1, t, <<"probability must be between 0 and 1">>)
        ELSE LET flipped ==
                   [i \in 1..Len(h[t]) |->
                       IF h[t][i].Type \in cfgM.AppliesTo
                       THEN [h1[out][i] EXCEPT
                               !.Value = String(FlipRunes(Runes(h[t][i].Value), rnd,
                                                   DrawsBefore(h[t], cfgM.AppliesTo, i),
                                                   probability))]
                       ELSE h1[out][i]]
             IN  ApplyResult([h1 EXCEPT ![out] = flipped], out, ErrNil)

\* A CharacterInsertion that returns no token at all when its pool is empty.
CharacterInsertionApplyDropsTokens(h, t, cfg, rnd) ==
    IF Unmarshal(cfg).err = ErrNil /\ Unmarshal(cfg).Characters = <<>>
    THEN ApplyResult(Alloc(h, <<>>), NewAddr(h), ErrNil)
    ELSE ApplyResult(h, t, ErrNotImplemented)

\* unnamed/part_003: the configuration is checked, the insertion is not written yet.
CharacterInsertionApply(h, t, cfg, rnd) ==
    LET cfgM == Unmarshal(cfg)
        probability == ParseFloat(cfgM.Probability)
        offset == Atoi(cfgM.Offset)
        line1 == <<Println("probability:", [nan |-> probability.nan,
                                            tenths |-> probability.tenths])>>
        line2 == <<Println("offset:", offset.n)>>
    IN  IF cfgM.err # ErrNil
        THEN ApplyResult(h, t, Wrap("unmarshal config", cfgM.err))
        ELSE IF probability.err # ErrNil
        THEN ApplyResult(h, t, Wrap("parse probability", probability.err))
        ELSE IF FloatLess(probability, Float(0)) \/ FloatLess(Float(10), probability)
        THEN ApplyResult(h, t, <<"probability must be between 0 and 1">>)
        ELSE IF offset.err # ErrNil
        THEN [ApplyResult(h, t, Wrap("parse offset", offset.err)) EXCEPT
                 !.printed = line1]
        ELSE [ApplyResult(h, t, ErrNotImplemented) EXCEPT !.printed = line1 \o line2]

\* A ReorderArgs that returns the tokens in reverse order.
ReorderArgsApplyReversed(h, t, cfg, rnd) ==
    ApplyResult(Alloc(h, [i \in 1..Len(h[t]) |-> h[t][Len(h[t]) + 1 - i]]),
                NewAddr(h), ErrNil)

\* reorder_args.go:51-53, shorthands.go:53-55, unnamed/part_005:55-57.
ReorderArgsApply(h, t, cfg, rnd) == ApplyResult(h, t, ErrNotImplemented)

ShorthandsApply(h, t, cfg, rnd) == ApplyResult(h, t, ErrNotImplemented)

UrlTransformerApply(h, t, cfg, rnd) == ApplyResult(h, t, ErrNotImplemented)

Apply(m, h, t, cfg, rnd) ==
    CASE m = "randomcase"   -> RandomCaseApply(h, t, cfg, rnd)
      [] m = "charinsert"   -> CharacterInsertionApply(h, t, cfg, rnd)
      [] m = "reorderargs"  -> ReorderArgsApply(h, t, cfg, rnd)
      [] m = "shorthands"   -> ShorthandsApply(h, t, cfg, rnd)
      [] m = "urltransform" -> UrlTransformerApply(h, t, cfg, rnd)
      [] OTHER              -> StubApply(h, t, cfg, rnd)

\* The number of rand.Float64() calls Apply makes.
NumDraws(m, toks, cfg) ==
    IF m = "randomcase" /\ Unmarshal(cfg).err = ErrNil
    THEN DrawsBefore(toks, Unmarshal(cfg).AppliesTo, Len(toks) + 1)
    ELSE 0

(***************************************************************************)
(* engine.go: Tokenize, Render and pickProfile.                            *)
(***************************************************************************)
\* strings.Fields: the maximal runs of non-space runes of s.
RECURSIVE FieldsScan(_, _, _, _)
FieldsScan(s, i, cur, acc) ==
    IF i > Len(s) THEN (IF cur = <<>> THEN acc ELSE Append(acc, cur))
    ELSE IF IsSpace(s[i])
    THEN FieldsScan(s, i + 1, <<>>, IF cur = <<>> THEN acc ELSE Append(acc, cur))
    ELSE FieldsScan(s, i + 1, Append(cur, s[i]), acc)

Fields(s) == FieldsScan(s, 1, <<>>, <<>>)

\* strings.Join
RECURSIVE Join(_, _)
Join(parts, sep) ==
    IF parts = <<>> THEN <<>>
    ELSE IF Len(parts) = 1 THEN parts[1]
    ELSE parts[1] \o sep \o Join(Tail(parts), sep)

\* A Tokenize that tests the command, not its fields, for emptiness.
TokenizeRawLength(cmd, profile) ==
    LET parts == Fields(cmd)
    IN  IF Len(cmd) = 0
        THEN [tokens |-> <<>>, err |-> <<"tokenize: empty command">>]
        ELSE [tokens |-> [i \in 1..Len(parts) |->
                            IF i = 1 THEN Token(TokenTypeCommand, parts[1])
                            ELSE Token(TokenTypeArgument, parts[i])],
              err |-> ErrNil]

\* A Tokenize that labels every field a command.
TokenizeAllCommand(cmd, profile) ==
    LET parts == Fields(cmd)
    IN  IF Len(parts) = 0
        THEN [tokens |-> <<>>, err |-> <<"tokenize: empty command">>]
        ELSE [tokens |-> [i \in 1..Len(parts) |-> Token(TokenTypeCommand, parts[i])],
              err |-> ErrNil]

Tokenize(cmd, profile) ==
    LET parts == Fields(cmd)
    IN  IF Len(parts) = 0
        THEN [tokens |-> <<>>, err |-> <<"tokenize: empty command">>]
        ELSE [tokens |-> [i \in 1..Len(parts) |->
                            IF i = 1 THEN Token(TokenTypeCommand, parts[1])
                            ELSE Token(TokenTypeArgument, parts[i])],
              err |-> ErrNil]

Render(toks) == Join([i \in 1..Len(toks) |-> toks[i].Value], <<" ">>)

pickProfile(pfile) == pfile.Profiles[1]

(***************************************************************************)
(* modifier.go: the registry.                                              *)
(***************************************************************************)
\* A Register without the duplicate check.
RegisterExistsNever(reg, m) == FALSE

\* Register's test `_, exists := registry[m.Name()]`.
RegisterExists(reg, m) == Name(m) \in DOMAIN reg

\* registry[m.Name()] = m
RegistryPut(reg, m) ==
    [n \in (DOMAIN reg) \cup {Name(m)} |-> IF n = Name(m) THEN m ELSE reg[n]]

\* The name put in front of the list.
OrderPrepend(ord, m) == <<Name(m)>> \o ord

\* order = append(order, m.Name())
OrderAppend(ord, m) == Append(ord, Name(m))

Register(m) ==
    /\ regArg' = m
    /\ IF RegisterExists(registry, m)
       THEN /\ panicked' = TRUE
            /\ UNCHANGED <<registry, order>>
       ELSE /\ registry' = RegistryPut(registry, m)
            /\ order' = OrderAppend(order, m)
            /\ UNCHANGED panicked

\* All(): every registered Modifier in registration order.
All == [i \in 1..Len(order) |-> registry[order[i]]]

\* Get(name): the modifier and whether the name is registered.
Get(name) ==
    IF name \in DOMAIN registry THEN [m |-> registry[name], ok |-> TRUE]
    ELSE [m |-> "", ok |-> FALSE]

(***************************************************************************)
(* The inputs of Engine.Obfuscate the model draws from.                    *)
(***************************************************************************)
CallIds == {1, 2}

CmdAlphabet == {"a", " "}

Commands == BoundedSeq(CmdAlphabet, MaxCmdLen)

\* The names the built-in packages register (engine.go imports modifiers/all).
BuiltinNames == {Name(m) : m \in Range(InitOrder)}

StubCfg == RawConfig({TokenTypeArgument}, "0.5", <<>>, "")

RCConfigs ==
    {BadJSON,
     RawConfig({TokenTypeCommand, TokenTypeArgument}, "0.5", <<>>, ""),
     RawConfig({TokenTypeArgument}, "1.0", <<>>, ""),
     RawConfig({TokenTypeArgument}, "1.5", <<>>, "")}

CIConfigs ==
    {BadJSON,
     RawConfig({TokenTypeArgument}, "0.5", <<"z">>, "2"),
     RawConfig({TokenTypeArgument}, "0.5", <<"z">>, "x")}

\* A CharacterInsertion configuration that is well formed but has no character
\* to insert.
EmptyPoolCfg == RawConfig({TokenTypeArgument}, "1.0", <<>>, "2")

\* A profile's "modifiers" object with an entry for every built-in modifier.
FullModifiers(rc, ci) ==
    [n \in BuiltinNames |->
        IF n = "RandomCase" THEN rc
        ELSE IF n = "CharacterInsertion" THEN ci
        ELSE StubCfg]

DefaultModifiers ==
    FullModifiers(RawConfig({TokenTypeCommand, TokenTypeArgument}, "0.5", <<>>, ""),
                  RawConfig({TokenTypeArgument}, "0.5", <<"z">>, "2"))

\* Every entry present with each configuration of the two modifiers that read
\* theirs, or one entry missing, or one entry that is no JSON, or none present.
ModifierMaps ==
    {FullModifiers(rc, ci) : rc \in RCConfigs, ci \in CIConfigs}
    \cup {Restrict(DefaultModifiers, BuiltinNames \ {n}) : n \in BuiltinNames}
    \cup {[DefaultModifiers EXCEPT ![n] = BadJSON] : n \in BuiltinNames}
    \cup {[DefaultModifiers EXCEPT !["CharacterInsertion"] = EmptyPoolCfg]}
    \cup {EmptyMap}

Profile(platform, arguments, modifiers) ==
    [Platform |-> platform,
     Parameters |-> [Arguments |-> arguments, Modifiers |-> modifiers]]

NilProfileFile == [isNil |-> TRUE, Profiles |-> <<>>]

ProfileFile(profiles) == [isNil |-> FALSE, Profiles |-> profiles]

ProfileFiles ==
    {NilProfileFile, ProfileFile(<<>>)}
    \cup {ProfileFile(<<Profile("windows", <<>>, mm)>>) : mm \in ModifierMaps}
    \cup {ProfileFile(<<Profile("windows", <<>>, EmptyMap),
                        Profile("linux", <<>>, DefaultModifiers)>>),
          ProfileFile(<<Profile("linux", <<>>, DefaultModifiers),
                        Profile("windows", <<>>, EmptyMap)>>)}

AllEnabled == [n \in BuiltinNames |-> TRUE]

\* Every modifier on, or one mapped to false, or one absent, or the nil map.
EnabledMaps ==
    {AllEnabled, EmptyMap}
    \cup {[AllEnabled EXCEPT ![n] = FALSE] : n \in BuiltinNames}
    \cup {Restrict(AllEnabled, BuiltinNames \ {n}) : n \in BuiltinNames}

(***************************************************************************)
(* engine.go: Engine.Obfuscate, one action per step of a call c.           *)
(***************************************************************************)
EmptyResult == [Output |-> <<>>, Applied |-> <<>>, Skipped |-> <<>>, Errors |-> EmptyMap]

\* A lookup that takes a missing key for an enabled modifier.
LookupDefaultTrue(en, name) == IF name \in DOMAIN en THEN en[name] ELSE TRUE

\* enabled[name]: false for a key the map does not hold.
Lookup(en, name) == name \in DOMAIN en /\ en[name]

\* The heap a call starts with: the slices of a finished call are garbage.
LiveHeap(c) == IF \A d \in CallIds \ {c} : pc[d] # "loop" THEN <<>> ELSE heap

\* engine.go:49-66: the checks of the arguments, pickProfile and Tokenize.
ObfuscateEnter(c, cmd, pfile, en) ==
    /\ ~panicked
    /\ Len(order) = Len(InitOrder)
    /\ pc[c] = "idle"
    /\ command' = [command EXCEPT ![c] = cmd]
    /\ pf' = [pf EXCEPT ![c] = pfile]
    /\ enabled' = [enabled EXCEPT ![c] = en]
    /\ applyLog' = [applyLog EXCEPT ![c] = <<>>]
    /\ result' = [result EXCEPT ![c] = EmptyResult]
    /\ IF pfile.isNil \/ Len(pfile.Profiles) = 0
       THEN /\ err' = [err EXCEPT ![c] = <<"engine: no profiles available">>]
            /\ pc' = [pc EXCEPT ![c] = "done"]
            /\ tokens' = [tokens EXCEPT ![c] = 0]
            /\ mods' = [mods EXCEPT ![c] = <<>>]
            /\ idx' = [idx EXCEPT ![c] = 0]
            /\ heap' = LiveHeap(c)
       ELSE LET tk == Tokenize(cmd, pickProfile(pfile))
            IN  IF tk.err # ErrNil
                THEN /\ err' = [err EXCEPT ![c] = Wrap("engine: tokenize", tk.err)]
                     /\ pc' = [pc EXCEPT ![c] = "done"]
                     /\ tokens' = [tokens EXCEPT ![c] = 0]
                     /\ mods' = [mods EXCEPT ![c] = <<>>]
                     /\ idx' = [idx EXCEPT ![c] = 0]
                     /\ heap' = LiveHeap(c)
                ELSE /\ err' = [err EXCEPT ![c] = ErrNil]
                     /\ pc' = [pc EXCEPT ![c] = "loop"]
                     /\ tokens' = [tokens EXCEPT ![c] = NewAddr(LiveHeap(c))]
                     /\ heap' = Alloc(LiveHeap(c), tk.tokens)
                     /\ mods' = [mods EXCEPT ![c] = All]
                     /\ idx' = [idx EXCEPT ![c] = 1]
    /\ UNCHANGED <<registryVars, view, tui, test, stdout>>

InLoop(c) == pc[c] = "loop" /\ idx[c] <= Len(mods[c])

\* The modifier of the current iteration, and the profile of the call.
Mod(c) == mods[c][idx[c]]

CallProfile(c) == pickProfile(pf[c])

HasCfg(c) == Name(Mod(c)) \in DOMAIN CallProfile(c).Parameters.Modifiers

\* engine.go:69-71: the modifier is not enabled.
SkipDisabled(c) ==
    /\ InLoop(c)
    /\ ~Lookup(enabled[c], Name(Mod(c)))
    /\ idx' = [idx EXCEPT ![c] = @ + 1]
    /\ UNCHANGED <<registryVars, view, tui, test, stdout, pc, command, pf, enabled, mods, tokens, result, err,
                   applyLog, heap>>

\* engine.go:73-77: the profile has no entry for the modifier.
SkipNoConfig(c) ==
    /\ InLoop(c)
    /\ Lookup(enabled[c], Name(Mod(c)))
    /\ ~HasCfg(c)
    /\ idx' = [idx EXCEPT ![c] = @ + 1]
    /\ UNCHANGED <<registryVars, view, tui, test, stdout, pc, command, pf, enabled, mods, tokens, result, err,
                   applyLog, heap>>

\* Every failure reported as an error, ErrNotImplemented included.
RecordErrorNoSentinel(res, name, e) ==
    [res EXCEPT !.Errors =
        [n \in (DOMAIN @) \cup {name} |-> IF n = name THEN e ELSE @[n]]]

\* engine.go:82-85: the outcome of a failed Apply is recorded.
RecordError(res, name, e) ==
    IF ErrorsIs(e, ErrNotImplemented)
    THEN [res EXCEPT !.Skipped = Append(@, name)]
    ELSE [res EXCEPT !.Errors =
            [n \in (DOMAIN @) \cup {name} |-> IF n = name THEN e ELSE @[n]]]

\* engine.go:90-91: the outcome of a successful Apply is recorded.
RecordApplied(res, name) == [res EXCEPT !.Applied = Append(@, name)]

\* engine.go:90: the slice the loop goes on with after an Apply.
NextTokens(cur, r) == IF r.err # ErrNil THEN cur ELSE r.tokens

\* A pipeline that returns at the first configuration error.
PcAfterApplyAbort(r) ==
    IF r.err # ErrNil /\ ~ErrorsIs(r.err, ErrNotImplemented) THEN "done" ELSE "loop"

\* engine.go:87: after an error the loop continues with the next modifier.
PcAfterApply(r) == "loop"

\* engine.go:79-91: Apply is called and its outcome handled.
ApplyModifier(c) ==
    /\ InLoop(c)
    /\ Lookup(enabled[c], Name(Mod(c)))
    /\ HasCfg(c)
    /\ LET rawCfg == CallProfile(c).Parameters.Modifiers[Name(Mod(c))]
       IN  \E rnd \in [1..NumDraws(Mod(c), heap[tokens[c]], rawCfg) -> RandDraws] :
             LET r == Apply(Mod(c), heap, tokens[c], rawCfg, rnd)
             IN  /\ heap' = r.heap
                 /\ tokens' = [tokens EXCEPT ![c] = NextTokens(@, r)]
                 /\ result' = [result EXCEPT ![c] =
                                 IF r.err # ErrNil THEN RecordError(@, Name(Mod(c)), r.err)
                                 ELSE RecordApplied(@, Name(Mod(c)))]
                 /\ applyLog' = [applyLog EXCEPT ![c] =
                                   Append(@, [name |-> Name(Mod(c)),
                                              arg |-> tokens[c],
                                              in |-> heap[tokens[c]],
                                              ret |-> r.tokens,
                                              out |-> r.heap[r.tokens],
                                              err |-> r.err])]
                 /\ pc' = [pc EXCEPT ![c] = PcAfterApply(r)]
                 /\ stdout' = stdout \o r.printed
    /\ idx' = [idx EXCEPT ![c] = @ + 1]
    /\ UNCHANGED <<registryVars, view, tui, test, command, pf, enabled, mods, err>>

\* engine.go:98-100: the loop is over; render and return.
RenderReturn(c) ==
    /\ pc[c] = "loop"
    /\ idx[c] > Len(mods[c])
    /\ result' = [result EXCEPT ![c].Output = Render(heap[tokens[c]])]
    /\ pc' = [pc EXCEPT ![c] = "done"]
    /\ UNCHANGED <<registryVars, view, tui, test, stdout, command, pf, enabled, mods, idx, tokens, err,
                   applyLog, heap>>

\* The caller drops the result; the call's locals are gone.
Forget(c) ==
    /\ pc[c] = "done"
    /\ pc' = [pc EXCEPT ![c] = "idle"]
    /\ command' = [command EXCEPT ![c] = <<>>]
    /\ pf' = [pf EXCEPT ![c] = NilProfileFile]
    /\ enabled' = [enabled EXCEPT ![c] = EmptyMap]
    /\ mods' = [mods EXCEPT ![c] = <<>>]
    /\ idx' = [idx EXCEPT ![c] = 0]
    /\ tokens' = [tokens EXCEPT ![c] = 0]
    /\ result' = [result EXCEPT ![c] = EmptyResult]
    /\ err' = [err EXCEPT ![c] = ErrNil]
    /\ applyLog' = [applyLog EXCEPT ![c] = <<>>]
    /\ heap' = LiveHeap(c)
    /\ stdout' = <<>>
    /\ UNCHANGED <<registryVars, view, tui, test>>

\* No call of ModifierSummary, DefaultEnabled, All or Get yet.
NoView ==
    [call |-> "none", enabled |-> EmptyMap, enabledAfter |-> EmptyMap,
     pf |-> NilProfileFile, name |-> "", summary |-> <<>>, defaults |-> EmptyMap,
     all |-> <<>>, got |-> [m |-> "", ok |-> FALSE]]

\* tui.Model{}: the zero value of the struct of app.go:87-125. A slice or a
\* string is a sequence, a pointer to a profile file is its index in allExes
\* (0 is nil), and a key is its tea.KeyMsg.String().
ZeroModel ==
    [width |-> 0, height |-> 0,
     focused |-> 0,
     osFilter |-> 0,
     searchInput |-> [value |-> <<>>, focus |-> FALSE, CharLimit |-> 0, Width |-> 0],
     searching |-> FALSE,
     allExes |-> <<>>,
     filtered |-> <<>>,
     exeCursor |-> 0,
     exeOffset |-> 0,
     cmdInput |-> [value |-> <<>>, focus |-> FALSE, CharLimit |-> 0, Width |-> 0],
     selected |-> 0,
     modifiers |-> <<>>,
     modCursor |-> 0,
     output |-> <<>>,
     outputView |-> [content |-> <<>>, Width |-> 0, Height |-> 0],
     copyMsg |-> <<>>,
     statusMsg |-> <<>>,
     lastErr |-> ErrNil]

\* The terminal program is not running.
NoTui == [m |-> ZeroModel, cmd |-> "nil"]

\* No direct caller of Apply.
NoTest ==
    [pc |-> "off", mod |-> "", cfg |-> BadJSON, input |-> 0, orig |-> <<>>,
     got |-> 0, out |-> <<>>, err |-> ErrNil, wrote |-> 0]

(***************************************************************************)
(* The program: the packages' init functions register the built-in         *)
(* modifiers in import order, then the engine serves calls.                *)
(***************************************************************************)
Init ==
    /\ registry = EmptyMap
    /\ order = <<>>
    /\ panicked = FALSE
    /\ regArg = ""
    /\ pc = [c \in CallIds |-> "idle"]
    /\ command = [c \in CallIds |-> <<>>]
    /\ pf = [c \in CallIds |-> NilProfileFile]
    /\ enabled = [c \in CallIds |-> EmptyMap]
    /\ mods = [c \in CallIds |-> <<>>]
    /\ idx = [c \in CallIds |-> 0]
    /\ tokens = [c \in CallIds |-> 0]
    /\ result = [c \in CallIds |-> EmptyResult]
    /\ err = [c \in CallIds |-> ErrNil]
    /\ applyLog = [c \in CallIds |-> <<>>]
    /\ heap = <<>>
    /\ test = NoTest
    /\ stdout = <<>>
    /\ view = NoView
    /\ tui = NoTui

\* The init() of the next package of modifiers/all.
PackageInit ==
    /\ ~panicked
    /\ Len(order) < Len(InitOrder)
    /\ Register(InitOrder[Len(order) + 1])
    /\ UNCHANGED <<callVars, view, tui, test, stdout>>

\* A call of Obfuscate with any of the model's inputs.
ObfuscateCall(c) ==
    /\ pc[c] = "idle"
    /\ \E cmd \in Commands, pfile \in ProfileFiles, en \in EnabledMaps :
          ObfuscateEnter(c, cmd, pfile, en)

Obfuscate(c) ==
    \/ ObfuscateCall(c)
    \/ SkipDisabled(c)
    \/ SkipNoConfig(c)
    \/ ApplyModifier(c)
    \/ RenderReturn(c)
    \/ Forget(c)

Next ==
    \/ PackageInit
    \/ Obfuscate(1)

Spec == Init /\ [][Next]_vars

(***************************************************************************)
(* The registry alone, under any sequence of Register calls.               *)
(***************************************************************************)
RegisterCall(m) ==
    /\ ~panicked
    /\ Len(order) < MaxRegistered
    /\ Register(m)
    /\ UNCHANGED <<callVars, view, tui, test, stdout>>

NextRegistry == \E m \in Modifiers : RegisterCall(m)

SpecRegistry == Init /\ [][NextRegistry]_vars


(***************************************************************************)
(* Tokenize and Render alone, on any command of the alphabet: the command  *)
(* is tokenized, and the tokens are rendered.                              *)
(***************************************************************************)
RoundTripAlphabet == {"a", " ", "\""}

RoundTripCommands == BoundedSeq(RoundTripAlphabet, MaxRoundTripLen)

RoundTripProfileFile == ProfileFile(<<Profile("windows", <<>>, EmptyMap)>>)

InitRoundTrip ==
    /\ registry = EmptyMap
    /\ order = <<>>
    /\ panicked = FALSE
    /\ regArg = ""
    /\ pc = [c \in CallIds |-> "idle"]
    /\ \E cmd \in RoundTripCommands :
          command = [c \in CallIds |-> IF c = 1 THEN cmd ELSE <<>>]
    /\ pf = [c \in CallIds |-> IF c = 1 THEN RoundTripProfileFile ELSE NilProfileFile]
    /\ enabled = [c \in CallIds |-> EmptyMap]
    /\ mods = [c \in CallIds |-> <<>>]
    /\ idx = [c \in CallIds |-> 0]
    /\ tokens = [c \in CallIds |-> 0]
    /\ result = [c \in CallIds |-> EmptyResult]
    /\ err = [c \in CallIds |-> ErrNil]
    /\ applyLog = [c \in CallIds |-> <<>>]
    /\ heap = <<>>
    /\ test = NoTest
    /\ stdout = <<>>
    /\ view = NoView
    /\ tui = NoTui

\* tokens, err := Tokenize(command, profile)
TokenizeCall(c) ==
    /\ pc[c] = "idle"
    /\ LET tk == Tokenize(command[c], CallProfile(c))
       IN  /\ err' = [err EXCEPT ![c] = tk.err]
           /\ tokens' = [tokens EXCEPT ![c] = NewAddr(heap)]
           /\ heap' = Alloc(heap, tk.tokens)
    /\ pc' = [pc EXCEPT ![c] = "tokenized"]
    /\ UNCHANGED <<registryVars, view, tui, test, stdout, command, pf, enabled, mods, idx, result, applyLog>>

\* Render(tokens), of the tokens a successful Tokenize returned.
RenderCall(c) ==
    /\ pc[c] = "tokenized"
    /\ err[c] = ErrNil
    /\ result' = [result EXCEPT ![c].Output = Render(heap[tokens[c]])]
    /\ pc' = [pc EXCEPT ![c] = "done"]
    /\ UNCHANGED <<registryVars, view, tui, test, stdout, command, pf, enabled, mods, idx, tokens, err,
                   applyLog, heap>>

NextRoundTrip == TokenizeCall(1) \/ RenderCall(1)

SpecRoundTrip == InitRoundTrip /\ [][NextRoundTrip]_vars

(***************************************************************************)
(* Tokenize on commands made of whole words (a flag, a URL, a path, a      *)
(* plain word), with a profile that declares the flag or declares nothing. *)
(***************************************************************************)
WordFlag == <<"-", "f">>
WordURL == <<"h", "t", "t", "p", ":", "/", "/", "x">>
WordPath == <<"a", "/", "b">>
WordPlain == <<"o">>

TokenizeWords == {<<"c">>, WordFlag, WordURL, WordPath, WordPlain}

TokenizeCommands == {Join(ws, <<" ">>) : ws \in BoundedSeq(TokenizeWords, MaxFields)}

\* models.ArgumentDefinition
ArgumentDefinition(flags, valueCount) == [Flags |-> flags, ValueCount |-> valueCount]

TokenizeProfileFiles ==
    {ProfileFile(<<Profile("windows", <<>>, EmptyMap)>>),
     ProfileFile(<<Profile("windows", <<ArgumentDefinition(<<WordFlag>>, 1)>>, EmptyMap)>>)}

InitTokenize ==
    /\ registry = EmptyMap
    /\ order = <<>>
    /\ panicked = FALSE
    /\ regArg = ""
    /\ pc = [c \in CallIds |-> "idle"]
    /\ \E cmd \in TokenizeCommands :
          command = [c \in CallIds |-> IF c = 1 THEN cmd ELSE <<>>]
    /\ \E pfile \in TokenizeProfileFiles :
          pf = [c \in CallIds |-> IF c = 1 THEN pfile ELSE NilProfileFile]
    /\ enabled = [c \in CallIds |-> EmptyMap]
    /\ mods = [c \in CallIds |-> <<>>]
    /\ idx = [c \in CallIds |-> 0]
    /\ tokens = [c \in CallIds |-> 0]
    /\ result = [c \in CallIds |-> EmptyResult]
    /\ err = [c \in CallIds |-> ErrNil]
    /\ applyLog = [c \in CallIds |-> <<>>]
    /\ heap = <<>>
    /\ test = NoTest
    /\ stdout = <<>>
    /\ view = NoView
    /\ tui = NoTui

SpecTokenize == InitTokenize /\ [][NextRoundTrip]_vars

(***************************************************************************)
(* Render alone, on token slices whose values may hold a blank or come     *)
(* already quoted.                                                         *)
(***************************************************************************)
RenderValues == {<<"a">>, <<"a", " ", "b">>, <<"\"", "a", " ", "b", "\"">>}

RenderTokens ==
    {Token(t, v) : t \in {TokenTypeCommand, TokenTypeArgument, TokenTypeValue},
                   v \in RenderValues}

RenderInputs == BoundedSeq(RenderTokens, MaxRenderTokens)

InitRender ==
    /\ registry = EmptyMap
    /\ order = <<>>
    /\ panicked = FALSE
    /\ regArg = ""
    /\ pc = [c \in CallIds |-> IF c = 1 THEN "tokenized" ELSE "idle"]
    /\ command = [c \in CallIds |-> <<>>]
    /\ pf = [c \in CallIds |-> NilProfileFile]
    /\ enabled = [c \in CallIds |-> EmptyMap]
    /\ mods = [c \in CallIds |-> <<>>]
    /\ idx = [c \in CallIds |-> 0]
    /\ tokens = [c \in CallIds |-> IF c = 1 THEN 1 ELSE 0]
    /\ result = [c \in CallIds |-> EmptyResult]
    /\ err = [c \in CallIds |-> ErrNil]
    /\ applyLog = [c \in CallIds |-> <<>>]
    /\ \E toks \in RenderInputs : heap = <<toks>>
    /\ test = NoTest
    /\ stdout = <<>>
    /\ view = NoView
    /\ tui = NoTui

NextRender == RenderCall(1)

SpecRender == InitRender /\ [][NextRender]_vars

(***************************************************************************)
(* Apply alone, as a direct caller such as a unit test uses it: the caller *)
(* builds a token slice and a configuration, calls Apply of one registered *)
(* modifier, and may afterwards write into the slice it passed or into the *)
(* slice it got back.                                                      *)
(***************************************************************************)
ApplyTokenValues == {<<"a", "B">>, <<"-", "u2170">>, <<InvalidByte>>}

ApplyTokens == {Token(t, v) : t \in TokenTypes, v \in ApplyTokenValues}

ApplyInputs == BoundedSeq(ApplyTokens, MaxTokens)

ApplyAppliesTo == {{}, {TokenTypeArgument}, {TokenTypeCommand, TokenTypeArgument, TokenTypePath}}

ApplyProbabilities == {"0.0", "0.5", "1.0", "1.5", "-0.5", "NaN", "x"}

\* The configurations a caller passes to each modifier.
ApplyConfigs(m) ==
    CASE m = "randomcase" ->
            {BadJSON} \cup {RawConfig(a, p, <<>>, "") :
                              a \in ApplyAppliesTo, p \in ApplyProbabilities}
      [] m = "charinsert" ->
            {BadJSON, EmptyPoolCfg}
            \cup {RawConfig({TokenTypeArgument}, p, <<"z">>, o) :
                     p \in ApplyProbabilities, o \in {"2", "x"}}
      [] m = "shorthands" ->
            {BadJSON, StubCfg, RawConfig({TokenTypeArgument}, "1.0", <<>>, "")}
      [] m = "urltransform" ->
            {BadJSON, StubCfg, RawConfig({TokenTypeURL}, "1.0", <<>>, "")}
      [] OTHER -> {BadJSON, StubCfg}

\* Decimal, hexadecimal and octal digits of a natural number.
Digit(d) ==
    CASE d = 0 -> "0" [] d = 1 -> "1" [] d = 2 -> "2" [] d = 3 -> "3"
      [] d = 4 -> "4" [] d = 5 -> "5" [] d = 6 -> "6" [] d = 7 -> "7"
      [] d = 8 -> "8" [] d = 9 -> "9" [] d = 10 -> "a" [] d = 11 -> "b"
      [] d = 12 -> "c" [] d = 13 -> "d" [] d = 14 -> "e" [] d = 15 -> "f"

RECURSIVE FormatInt(_, _)
FormatInt(n, base) ==
    IF n < base THEN <<Digit(n)>>
    ELSE Append(FormatInt(n \div base, base), Digit(n % base))

\* A dotted IPv4 literal, and a URL with a host.
Dotted(o) ==
    FormatInt(o[1], 10) \o <<".">> \o FormatInt(o[2], 10) \o <<".">>
    \o FormatInt(o[3], 10) \o <<".">> \o FormatInt(o[4], 10)

HttpURL(host) == <<"h", "t", "t", "p", ":", "/", "/">> \o host

Loopback == <<127, 0, 0, 1>>

\* The flags of a PowerShell profile the abbreviation has to tell apart.
FlagNonInteractive ==
    <<"-", "N", "o", "n", "I", "n", "t", "e", "r", "a", "c", "t", "i", "v", "e">>
FlagNoProfile == <<"-", "N", "o", "P", "r", "o", "f", "i", "l", "e">>
FlagNop == <<"-", "N", "o", "p">>

KnownFlags == {FlagNonInteractive, FlagNoProfile, FlagNop}

\* The token slices a caller passes to each modifier: any tokens, and for
\* three modifiers the tokens they are made for.
ApplyInputsOf(m) ==
    ApplyInputs \cup
    CASE m = "reorderargs" ->
            {<<Token(TokenTypeCommand, <<"c">>), Token(TokenTypeArgument, WordFlag),
               Token(TokenTypeValue, WordPlain)>>,
             <<Token(TokenTypeCommand, <<"c">>), Token(TokenTypeArgument, WordFlag),
               Token(TokenTypeValue, WordPlain), Token(TokenTypeArgument, <<"-", "x">>)>>}
      [] m = "shorthands" ->
            {<<Token(TokenTypeCommand, <<"c">>), Token(TokenTypeArgument, f)>> :
               f \in KnownFlags}
      [] m = "urltransform" ->
            {<<Token(TokenTypeCommand, <<"c">>), Token(TokenTypeURL, HttpURL(host))>> :
               host \in {Dotted(Loopback), <<"x">>}}
      [] OTHER -> {}

InitApply ==
    /\ registry = EmptyMap
    /\ order = <<>>
    /\ panicked = FALSE
    /\ regArg = ""
    /\ pc = [c \in CallIds |-> "idle"]
    /\ command = [c \in CallIds |-> <<>>]
    /\ pf = [c \in CallIds |-> NilProfileFile]
    /\ enabled = [c \in CallIds |-> EmptyMap]
    /\ mods = [c \in CallIds |-> <<>>]
    /\ idx = [c \in CallIds |-> 0]
    /\ tokens = [c \in CallIds |-> 0]
    /\ result = [c \in CallIds |-> EmptyResult]
    /\ err = [c \in CallIds |-> ErrNil]
    /\ applyLog = [c \in CallIds |-> <<>>]
    /\ \E m \in Range(InitOrder) :
         \E input \in ApplyInputsOf(m), cfg \in ApplyConfigs(m) :
            /\ heap = <<input>>
            /\ test = [NoTest EXCEPT !.pc = "ready", !.mod = m, !.cfg = cfg,
                                     !.input = 1, !.orig = input]
    /\ stdout = <<>>
    /\ view = NoView
    /\ tui = NoTui

\* got, err := m.Apply(input, cfg)
ApplyCall ==
    /\ test.pc = "ready"
    /\ \E rnd \in [1..NumDraws(test.mod, heap[test.input], test.cfg) -> RandDraws] :
          LET r == Apply(test.mod, heap, test.input, test.cfg, rnd)
          IN  /\ heap' = r.heap
              /\ test' = [test EXCEPT !.pc = "returned", !.got = r.tokens,
                                      !.out = r.heap[r.tokens], !.err = r.err]
              /\ stdout' = stdout \o r.printed
    /\ UNCHANGED <<registryVars, view, tui, pc, command, pf, enabled, mods, idx, tokens, result,
                   err, applyLog>>

\* The value a caller stores into a slice afterwards.
Marker == Token(TokenTypeValue, <<"!">>)

\* The caller assigns to one element of the slice at address a.
CallerWrite(a) ==
    /\ test.pc = "returned"
    /\ a \in {test.input, test.got}
    /\ \E i \in 1..Len(heap[a]) :
          heap' = [heap EXCEPT ![a][i] = Marker]
    /\ test' = [test EXCEPT !.pc = "written", !.wrote = a]
    /\ UNCHANGED <<registryVars, view, tui, stdout, pc, command, pf, enabled, mods, idx, tokens, result,
                   err, applyLog>>

NextApply ==
    \/ ApplyCall
    \/ \E a \in 1..2 : CallerWrite(a)

SpecApply == InitApply /\ [][NextApply]_vars

(***************************************************************************)
(* engine.go: the views of the registry the options panel reads.           *)
(***************************************************************************)
ModifierInfo(name, description, on) ==
    [Name |-> name, Description |-> description, Enabled |-> on]

\* A summary that shows a modifier as enabled unless the map says otherwise.
ModifierSummaryDefaultOn(en) ==
    [i \in 1..Len(All) |->
        ModifierInfo(Name(All[i]), Description(All[i]),
                     LookupDefaultTrue(en, Name(All[i])))]

\* engine.go:161-172: one ModifierInfo per element of modifiers.All().
ModifierSummary(en) ==
    [i \in 1..Len(All) |->
        ModifierInfo(Name(All[i]), Description(All[i]), Lookup(en, Name(All[i])))]

\* engine.go:183-193: the names of the chosen profile's modifiers, each true.
DefaultEnabled(pfile) ==
    IF pfile.isNil \/ Len(pfile.Profiles) = 0
    THEN EmptyMap
    ELSE [n \in DOMAIN pickProfile(pfile).Parameters.Modifiers |-> TRUE]

\* The enabled maps the panel is asked about: also one with a name that no
\* package registers.
ViewEnabledMaps ==
    {EmptyMap,
     [AllEnabled EXCEPT !["RandomCase"] = FALSE],
     [n \in {"RandomCase", "Bogus"} |-> TRUE]}

ViewProfileFiles ==
    {NilProfileFile,
     ProfileFile(<<Profile("windows", <<>>, DefaultModifiers)>>),
     ProfileFile(<<Profile("windows", <<>>,
                           Restrict(DefaultModifiers, BuiltinNames \ {"RandomCase"}))>>),
     ProfileFile(<<Profile("windows", <<>>, [n \in {"Bogus"} |-> StubCfg])>>)}

ViewNames == {"RandomCase", "Bogus"}

\* out := ModifierSummary(enabled)
ModifierSummaryCall ==
    /\ ~panicked
    /\ \E en \in ViewEnabledMaps :
          view' = [NoView EXCEPT !.call = "ModifierSummary",
                                 !.enabled = en,
                                 !.enabledAfter = en,
                                 !.summary = ModifierSummary(en)]
    /\ UNCHANGED <<registryVars, callVars, tui, test, stdout>>

\* m := DefaultEnabled(pf)
DefaultEnabledCall ==
    /\ ~panicked
    /\ \E pfile \in ViewProfileFiles :
          view' = [NoView EXCEPT !.call = "DefaultEnabled",
                                 !.pf = pfile,
                                 !.defaults = DefaultEnabled(pfile)]
    /\ UNCHANGED <<registryVars, callVars, tui, test, stdout>>

\* all := modifiers.All()
AllCall ==
    /\ ~panicked
    /\ view' = [NoView EXCEPT !.call = "All", !.all = All]
    /\ UNCHANGED <<registryVars, callVars, tui, test, stdout>>

\* m, ok := modifiers.Get(name)
GetCall ==
    /\ ~panicked
    /\ \E name \in ViewNames :
          view' = [NoView EXCEPT !.call = "Get", !.name = name, !.got = Get(name)]
    /\ UNCHANGED <<registryVars, callVars, tui, test, stdout>>

ViewCall ==
    \/ ModifierSummaryCall
    \/ DefaultEnabledCall
    \/ AllCall
    \/ GetCall

(***************************************************************************)
(* The views over any registry: Register calls and view calls in any       *)
(* order.                                                                  *)
(***************************************************************************)
NextView ==
    \/ NextRegistry
    \/ ViewCall

SpecView == Init /\ [][NextView]_vars

(***************************************************************************)
(* Two goroutines calling Obfuscate on one Engine after the packages'      *)
(* init functions have run, their steps interleaved in any order, with     *)
(* view calls in between.                                                  *)
(***************************************************************************)
\* The registry once every init() of modifiers/all has run.
InitRegistry == [n \in BuiltinNames |-> CHOOSE m \in Range(InitOrder) : Name(m) = n]

InitRegistryOrder == [i \in 1..Len(InitOrder) |-> Name(InitOrder[i])]

ObfuscateInput(cmd, pfile, en) == [command |-> cmd, pf |-> pfile, enabled |-> en]

\* Two tokens, with Regex off and no entry for Sed in the profile; one token,
\* with a RandomCase entry that is no JSON and most modifiers off.
ConcurrentInputs ==
    {ObfuscateInput(<<"a", " ", "a">>,
                    ProfileFile(<<Profile("windows", <<>>,
                                  Restrict(DefaultModifiers, BuiltinNames \ {"Sed"}))>>),
                    [AllEnabled EXCEPT !["Regex"] = FALSE]),
     ObfuscateInput(<<"a">>,
                    ProfileFile(<<Profile("windows", <<>>,
                                  [DefaultModifiers EXCEPT !["RandomCase"] = BadJSON])>>),
                    Restrict(AllEnabled, {"RandomCase", "CharacterInsertion"}))}

InitConcurrent ==
    /\ registry = InitRegistry
    /\ order = InitRegistryOrder
    /\ panicked = FALSE
    /\ regArg = InitOrder[Len(InitOrder)]
    /\ pc = [c \in CallIds |-> "idle"]
    /\ command = [c \in CallIds |-> <<>>]
    /\ pf = [c \in CallIds |-> NilProfileFile]
    /\ enabled = [c \in CallIds |-> EmptyMap]
    /\ mods = [c \in CallIds |-> <<>>]
    /\ idx = [c \in CallIds |-> 0]
    /\ tokens = [c \in CallIds |-> 0]
    /\ result = [c \in CallIds |-> EmptyResult]
    /\ err = [c \in CallIds |-> ErrNil]
    /\ applyLog = [c \in CallIds |-> <<>>]
    /\ heap = <<>>
    /\ test = NoTest
    /\ stdout = <<>>
    /\ view = NoView
    /\ tui = NoTui

\* go e.Obfuscate(command, pf, enabled)
ConcurrentCall(c) ==
    /\ pc[c] = "idle"
    /\ \E input \in ConcurrentInputs :
          ObfuscateEnter(c, input.command, input.pf, input.enabled)

Goroutine(c) ==
    \/ ConcurrentCall(c)
    \/ SkipDisabled(c)
    \/ SkipNoConfig(c)
    \/ ApplyModifier(c)
    \/ RenderReturn(c)

NextConcurrent ==
    \/ \E c \in CallIds : Goroutine(c)
    \/ ViewCall

SpecConcurrent == InitConcurrent /\ [][NextConcurrent]_vars

(***************************************************************************)
(* One caller of Obfuscate in the shipped build, every init() done, on     *)
(* commands that may hold upper-case letters and bytes that are no UTF-8.  *)
(***************************************************************************)
BuildAlphabet == {"a", "B", " ", InvalidByte}

BuildCommands == BoundedSeq(BuildAlphabet, MaxCmdLen)

BuildProfileFiles ==
    {ProfileFile(<<Profile("windows", <<>>, DefaultModifiers)>>),
     ProfileFile(<<Profile("windows", <<>>,
                           FullModifiers(RawConfig({TokenTypeArgument}, "1.0", <<>>, ""),
                                         EmptyPoolCfg))>>),
     ProfileFile(<<Profile("windows", <<>>,
                           Restrict(DefaultModifiers, BuiltinNames \ {"Sed"}))>>)}

BuildEnabledMaps == {AllEnabled, [AllEnabled EXCEPT !["RandomCase"] = FALSE]}

\* result, err := eng.Obfuscate(command, pf, enabled)
BuildCall(c) ==
    /\ pc[c] = "idle"
    /\ \E cmd \in BuildCommands, pfile \in BuildProfileFiles, en \in BuildEnabledMaps :
          ObfuscateEnter(c, cmd, pfile, en)

NextBuild ==
    \/ BuildCall(1)
    \/ SkipDisabled(1)
    \/ SkipNoConfig(1)
    \/ ApplyModifier(1)
    \/ RenderReturn(1)
    \/ Forget(1)

SpecBuild == InitConcurrent /\ [][NextBuild]_vars

(***************************************************************************)
(* cmd/cmdfuscator/tui/app.go: the terminal user interface. Update is a    *)
(* function of the model and the message; what the operating system and    *)
(* the random source decide is its third argument.                         *)
(***************************************************************************)
panelSidebar == 0
panelInput == 1
panelOptions == 2
panelOutput == 3
panelCount == 4

osAll == 0
osWindows == 1
osLinux == 2
osMacOS == 3

osLabels == [f \in {osAll, osWindows, osLinux, osMacOS} |->
                CASE f = osAll -> "All" [] f = osWindows -> "Win"
                  [] f = osLinux -> "Lin" [] f = osMacOS -> "Mac"]

osPlatforms == [f \in {osWindows, osLinux, osMacOS} |->
                   CASE f = osWindows -> "windows" [] f = osLinux -> "linux"
                     [] f = osMacOS -> "macos"]

\* loader.go:253-306: the bindings; key.Matches(msg, b) is msg.String() \in b.
keys ==
    [NextPanel |-> {"tab"},
     PrevPanel |-> {"shift+tab"},
     Left      |-> {"left", "h"},
     Right     |-> {"right", "l"},
     Up        |-> {"up", "k"},
     Down      |-> {"down", "j"},
     Toggle    |-> {" "},
     Apply     |-> {"enter"},
     Copy      |-> {"c"},
     Reset     |-> {"r"},
     Search    |-> {"/"},
     Escape    |-> {"esc"},
     Quit      |-> {"q", "ctrl+c"}]

\* The keys that carry one rune (tea.KeyRunes, tea.KeySpace).
PrintableKeys == {"a", "c", "h", "j", "k", "l", "q", "r", " ", "/"}

\* textinput.Model.Update on a key: a blurred widget ignores it, a focused one
\* appends the rune of a printable key below its CharLimit.
TextInputUpdate(ti, k) ==
    IF ti.focus /\ k \in PrintableKeys /\ Len(ti.value) < ti.CharLimit
    THEN [ti EXCEPT !.value = Append(@, k)]
    ELSE ti

\* strings.TrimSpace
RECURSIVE TrimLeft(_)
TrimLeft(s) == IF s # <<>> /\ IsSpace(Head(s)) THEN TrimLeft(Tail(s)) ELSE s

RECURSIVE TrimRight(_)
TrimRight(s) ==
    IF s # <<>> /\ IsSpace(s[Len(s)]) THEN TrimRight(SubSeq(s, 1, Len(s) - 1)) ELSE s

TrimSpace(s) == TrimRight(TrimLeft(s))

\* strings.ToLower
StringsToLower(s) == [i \in 1..Len(s) |-> ToLower(s[i])]

\* strings.Contains
Contains(s, substr) ==
    \E i \in 0..(Len(s) - Len(substr)) : SubSeq(s, i + 1, i + Len(substr)) = substr

\* models.CommandElement.StringValue
StringValue(el) ==
    IF el.Command # <<>> THEN el.Command
    ELSE IF el.Argument # <<>> THEN el.Argument
    ELSE IF el.Path # <<>> THEN el.Path
    ELSE IF el.URL # <<>> THEN el.URL
    ELSE el.Value

\* app.go:452-458
buildTemplateCommand(p) ==
    Join([i \in 1..Len(p.Parameters.Command) |-> StringValue(p.Parameters.Command[i])],
         <<" ">>)

sidebarWidth == 26
panelBorderV == 2
panelBorderH == 4

bodyHeight(m) == IF m.height - 2 < 10 THEN 10 ELSE m.height - 2

mainWidth(m) == IF m.width - sidebarWidth < 20 THEN 20 ELSE m.width - sidebarWidth

panelContentWidth(m) == mainWidth(m) - panelBorderH

optModifierRows(m) ==
    IF (Len(m.modifiers) + 1) \div 2 < 1 THEN 1 ELSE (Len(m.modifiers) + 1) \div 2

outputViewHeight(m) ==
    LET fixed == 4 + 1 + (1 + optModifierRows(m) + panelBorderV) + 1
                 + (1 + panelBorderV) + 1 + 1
    IN  IF bodyHeight(m) - fixed < 2 THEN 2 ELSE bodyHeight(m) - fixed

sidebarListHeight(m) ==
    IF bodyHeight(m) - panelBorderV - 3 < 1 THEN 1 ELSE bodyHeight(m) - panelBorderV - 3

recalcSizes(m) ==
    LET pw == IF panelContentWidth(m) < 4 THEN 4 ELSE panelContentWidth(m)
    IN  [m EXCEPT !.cmdInput.Width = pw - 2,
                  !.outputView.Width = pw - 2,
                  !.outputView.Height = outputViewHeight(m)]

\* app.go:467-486: the body of the range loop, for the file at index i.
\* Platform names are lower-case here, so strings.EqualFold is equality.
FilterKeeps(m, i) ==
    LET query == StringsToLower(TrimSpace(m.searchInput.value))
        platform == IF m.osFilter \in DOMAIN osPlatforms
                    THEN osPlatforms[m.osFilter] ELSE ""
        pfile == m.allExes[i]
    IN  /\ platform # "" =>
              \E j \in 1..Len(pfile.Profiles) : pfile.Profiles[j].Platform = platform
        /\ query # <<>> => Contains(StringsToLower(pfile.Name), query)

RECURSIVE FilterScan(_, _, _)
FilterScan(m, i, out) ==
    IF i > Len(m.allExes) THEN out
    ELSE FilterScan(m, i + 1, IF FilterKeeps(m, i) THEN Append(out, i) ELSE out)

applyFilter(m) == [m EXCEPT !.filtered = FilterScan(m, 1, <<>>)]

\* A selection that keeps the toggles the user made.
selectExeKeepsToggles(m, ix) ==
    IF ix < 0 \/ ix >= Len(m.filtered) THEN m
    ELSE [m EXCEPT !.selected = m.filtered[ix + 1],
                   !.modifiers =
                       IF @ = <<>>
                       THEN ModifierSummary(DefaultEnabled(m.allExes[m.filtered[ix + 1]]))
                       ELSE @,
                   !.modCursor = 0,
                   !.output = <<>>,
                   !.outputView.content = <<>>,
                   !.copyMsg = <<>>,
                   !.statusMsg = <<>>]

\* app.go:429-449
selectExe(m, ix) ==
    IF ix < 0 \/ ix >= Len(m.filtered) THEN m
    ELSE LET sel == m.filtered[ix + 1]
             pfile == m.allExes[sel]
         IN  [m EXCEPT !.selected = sel,
                       !.cmdInput.value =
                           IF Len(pfile.Profiles) > 0
                           THEN buildTemplateCommand(pfile.Profiles[1]) ELSE @,
                       !.modifiers = ModifierSummary(DefaultEnabled(pfile)),
                       !.modCursor = 0,
                       !.output = <<>>,
                       !.outputView.content = <<>>,
                       !.copyMsg = <<>>,
                       !.statusMsg = <<>>]

\* A filter change that leaves the cursor where it was.
setOSFilterKeepsCursor(m, f) ==
    LET m1 == applyFilter([m EXCEPT !.osFilter = f])
    IN  IF Len(m1.filtered) > 0 THEN selectExe(m1, 0) ELSE m1

\* app.go:490-498
setOSFilter(m, f) ==
    LET m1 == applyFilter([m EXCEPT !.osFilter = f])
        m2 == [m1 EXCEPT !.exeCursor = 0, !.exeOffset = 0]
    IN  IF Len(m2.filtered) > 0 THEN selectExe(m2, 0) ELSE m2

\* app.go:502-508
syncFocusToWidget(m) == [m EXCEPT !.cmdInput.focus = (m.focused = panelInput)]

\* app.go:313-330. The output never exceeds the viewport, so LineUp moves nothing.
handleUp(m) ==
    IF m.focused = panelSidebar
    THEN IF m.exeCursor > 0
         THEN selectExe([m EXCEPT !.exeCursor = @ - 1,
                                  !.exeOffset = IF m.exeCursor - 1 < @ THEN @ - 1 ELSE @],
                        m.exeCursor - 1)
         ELSE m
    ELSE IF m.focused = panelOptions
    THEN IF m.modCursor > 0 THEN [m EXCEPT !.modCursor = @ - 1] ELSE m
    ELSE m

\* app.go:332-350
handleDown(m) ==
    IF m.focused = panelSidebar
    THEN IF m.exeCursor < Len(m.filtered) - 1
         THEN selectExe([m EXCEPT !.exeCursor = @ + 1,
                                  !.exeOffset =
                                      IF m.exeCursor + 1 >= @ + sidebarListHeight(m)
                                      THEN @ + 1 ELSE @],
                        m.exeCursor + 1)
         ELSE m
    ELSE IF m.focused = panelOptions
    THEN IF m.modCursor < Len(m.modifiers) - 1 THEN [m EXCEPT !.modCursor = @ + 1] ELSE m
    ELSE m

\* A toggle that always flips the first modifier.
toggleModifierFirst(m) ==
    IF Len(m.modifiers) > 0
    THEN [m EXCEPT !.modifiers[1].Enabled = ~@]
    ELSE m

\* app.go:352-356
toggleModifier(m) ==
    IF m.modCursor >= 0 /\ m.modCursor < Len(m.modifiers)
    THEN [m EXCEPT !.modifiers[m.modCursor + 1].Enabled = ~@]
    ELSE m

\* engine.go:68-98 as a function of the draws of the random source, which the
\* calls of Apply consume in turn.
RECURSIVE ObfuscateLoop(_, _, _, _, _, _, _, _)
ObfuscateLoop(i, h, t, res, profile, en, rnd, printed) ==
    IF i > Len(All)
    THEN [result |-> [res EXCEPT !.Output = Render(h[t])], err |-> ErrNil,
          printed |-> printed]
    ELSE IF \/ ~Lookup(en, Name(All[i]))
            \/ Name(All[i]) \notin DOMAIN profile.Parameters.Modifiers
    THEN ObfuscateLoop(i + 1, h, t, res, profile, en, rnd, printed)
    ELSE LET rawCfg == profile.Parameters.Modifiers[Name(All[i])]
             n == NumDraws(All[i], h[t], rawCfg)
             r == Apply(All[i], h, t, rawCfg, [k \in 1..n |-> rnd[k]])
         IN  ObfuscateLoop(i + 1, r.heap, NextTokens(t, r),
                           IF r.err # ErrNil THEN RecordError(res, Name(All[i]), r.err)
                           ELSE RecordApplied(res, Name(All[i])),
                           profile, en, [k \in 1..(Len(rnd) - n) |-> rnd[n + k]],
                           printed \o r.printed)

\* engine.go:49-100
EngObfuscate(cmd, pfile, en, rnd) ==
    IF pfile.isNil \/ Len(pfile.Profiles) = 0
    THEN [result |-> EmptyResult, err |-> <<"engine: no profiles available">>,
          printed |-> <<>>]
    ELSE LET tk == Tokenize(cmd, pickProfile(pfile))
         IN  IF tk.err # ErrNil
             THEN [result |-> EmptyResult, err |-> Wrap("engine: tokenize", tk.err),
                   printed |-> <<>>]
             ELSE ObfuscateLoop(1, Alloc(<<>>, tk.tokens), NewAddr(<<>>), EmptyResult,
                                pickProfile(pfile), en, rnd, <<>>)

\* app.go:370-373: the last entry of a name decides.
EnabledOf(ms) ==
    [n \in {ms[i].Name : i \in 1..Len(ms)} |->
        ms[CHOOSE i \in 1..Len(ms) :
                /\ ms[i].Name = n
                /\ \A j \in (i + 1)..Len(ms) : ms[j].Name # n].Enabled]

\* app.go:387-399: the parts of the summary; the errors come in map order, so
\* they are kept as the set they are.
StatusParts(res) ==
    (IF Len(res.Applied) > 0 THEN <<<<"applied: ", res.Applied>>>> ELSE <<>>)
    \o (IF Len(res.Skipped) > 0 THEN <<<<"not implemented: ", res.Skipped>>>> ELSE <<>>)
    \o (IF DOMAIN res.Errors # {} THEN <<<<"errors: ", res.Errors>>>> ELSE <<>>)

\* app.go:358-401; the second component is what the call wrote to os.Stdout.
applyObfuscation(m, rnd) ==
    IF m.selected = 0
    THEN [m |-> [m EXCEPT !.statusMsg = <<"select an executable first">>],
          printed |-> <<>>]
    ELSE IF TrimSpace(m.cmdInput.value) = <<>>
    THEN [m |-> [m EXCEPT !.statusMsg = <<"enter a command">>], printed |-> <<>>]
    ELSE LET r == EngObfuscate(TrimSpace(m.cmdInput.value), m.allExes[m.selected],
                               EnabledOf(m.modifiers), rnd)
         IN  IF r.err # ErrNil
             THEN [m |-> [m EXCEPT !.lastErr = r.err,
                                   !.statusMsg = <<"error: ", r.err>>],
                   printed |-> r.printed]
             ELSE [m |-> [m EXCEPT !.output = r.result.Output,
                                   !.outputView.content = r.result.Output,
                                   !.statusMsg = StatusParts(r.result),
                                   !.lastErr = ErrNil],
                   printed |-> r.printed]

\* What runtime.GOOS and the clipboard command make of a copy.
CopyOutcomes == {"unsupported", "failed", "copied"}

\* app.go:403-425
copyOutput(m, outcome) ==
    IF m.output = <<>> THEN m
    ELSE IF outcome = "unsupported"
    THEN [m EXCEPT !.copyMsg = <<"(copy not supported on this OS)">>]
    ELSE IF outcome = "failed"
    THEN [m EXCEPT !.copyMsg = <<"copy failed: ">>]
    ELSE [m EXCEPT !.copyMsg = <<"COPIED!">>]

\* What Update returns: the model, the tea.Cmd and the lines written meanwhile.
Returned3(m, cmd, printed) == [m |-> m, cmd |-> cmd, printed |-> printed]

\* app.go:291-311
handleSearchKey(m, k) ==
    IF k \in {"esc", "enter"}
    THEN LET m1 == applyFilter([m EXCEPT !.searching = FALSE,
                                         !.searchInput.focus = FALSE])
         IN  IF Len(m1.filtered) > 0
             THEN Returned3(selectExe([m1 EXCEPT !.exeCursor = 0, !.exeOffset = 0], 0),
                            "nil", <<>>)
             ELSE Returned3(m1, "nil", <<>>)
    ELSE Returned3([applyFilter([m EXCEPT !.searchInput = TextInputUpdate(@, k)])
                        EXCEPT !.exeCursor = 0, !.exeOffset = 0], "nil", <<>>)

\* The panel after Tab, counted without wrapping around.
NextPanelNoWrap(f) == IF f + 1 < panelCount THEN f + 1 ELSE f

\* app.go:240
NextPanel(f) == (f + 1) % panelCount

\* app.go:244
PrevPanel(f) == (f + panelCount - 1) % panelCount

\* A reset that keeps the status line.
ResetOutputKeepsStatus(m) ==
    [m EXCEPT !.output = <<>>, !.outputView.content = <<>>, !.copyMsg = <<>>,
              !.lastErr = ErrNil]

\* app.go:272-278
ResetOutput(m) ==
    [m EXCEPT !.output = <<>>, !.outputView.content = <<>>, !.copyMsg = <<>>,
              !.lastErr = ErrNil, !.statusMsg = <<>>]

\* app.go:224-289. env.rnd are the draws of rand.Float64, env.copy the outcome
\* of the clipboard command.
handleKey(m, k, env) ==
    IF k = "ctrl+c" THEN Returned3(m, "quit", <<>>)
    ELSE IF ~m.searching /\ k = "q" THEN Returned3(m, "quit", <<>>)
    ELSE IF m.searching THEN handleSearchKey(m, k)
    ELSE IF k \in keys.NextPanel
    THEN Returned3(syncFocusToWidget([m EXCEPT !.focused = NextPanel(@)]), "nil", <<>>)
    ELSE IF k \in keys.PrevPanel
    THEN Returned3(syncFocusToWidget([m EXCEPT !.focused = PrevPanel(@)]), "nil", <<>>)
    ELSE IF k \in keys.Search /\ m.focused = panelSidebar
    THEN Returned3([m EXCEPT !.searching = TRUE, !.searchInput.focus = TRUE], "nil", <<>>)
    ELSE IF k \in keys.Left /\ m.focused = panelSidebar
    THEN Returned3(setOSFilter(m, (m.osFilter + Cardinality(DOMAIN osPlatforms))
                                      % Cardinality(DOMAIN osLabels)), "nil", <<>>)
    ELSE IF k \in keys.Right /\ m.focused = panelSidebar
    THEN Returned3(setOSFilter(m, (m.osFilter + 1) % Cardinality(DOMAIN osLabels)),
                   "nil", <<>>)
    ELSE IF k \in keys.Up THEN Returned3(handleUp(m), "nil", <<>>)
    ELSE IF k \in keys.Down THEN Returned3(handleDown(m), "nil", <<>>)
    ELSE IF k \in keys.Toggle /\ m.focused = panelOptions
    THEN Returned3(toggleModifier(m), "nil", <<>>)
    ELSE IF k \in keys.Apply
    THEN LET a == applyObfuscation(m, env.rnd) IN Returned3(a.m, "nil", a.printed)
    ELSE IF k \in keys.Copy THEN Returned3(copyOutput(m, env.copy), "nil", <<>>)
    ELSE IF k \in keys.Reset THEN Returned3(ResetOutput(m), "nil", <<>>)
    ELSE IF m.focused = panelInput
    THEN Returned3([m EXCEPT !.cmdInput = TextInputUpdate(@, k)], "nil", <<>>)
    ELSE Returned3(m, "nil", <<>>)

\* app.go:190-194
updateWindowSize(m, w, h) == recalcSizes([m EXCEPT !.width = w, !.height = h])

\* app.go:129-179, for profiles that load and come sorted by name.
New(profiles) ==
    LET m == applyFilter(
                 [ZeroModel EXCEPT
                     !.cmdInput = [value |-> <<>>, focus |-> FALSE,
                                   CharLimit |-> 512, Width |-> 60],
                     !.searchInput = [value |-> <<>>, focus |-> FALSE,
                                      CharLimit |-> 64, Width |-> 20],
                     !.outputView = [content |-> <<>>, Width |-> 60, Height |-> 5],
                     !.focused = panelSidebar,
                     !.allExes = profiles])
    IN  IF Len(m.filtered) > 0 THEN selectExe(m, 0) ELSE m

(***************************************************************************)
(* The program under bubbletea: a message at a time goes through Update.   *)
(***************************************************************************)
MaxTuiText == 2
MaxQuery == 1
MaxToggled == 1

\* models.CommandElement with only its command text set.
CommandElement(text) ==
    [Command |-> text, Argument |-> <<>>, Path |-> <<>>, URL |-> <<>>, Value |-> <<>>]

TuiProfile(platform, template, modifiers) ==
    [Platform |-> platform,
     Parameters |-> [Command |-> template, Arguments |-> <<>>, Modifiers |-> modifiers]]

\* models.ProfileFile as the loader returns it.
TuiExe(name, profiles) == [isNil |-> FALSE, Name |-> name, Profiles |-> profiles]

\* The number of modifiers the user has switched away from the defaults.
Toggled(m) ==
    IF m.selected = 0 THEN 0
    ELSE Cardinality({i \in 1..Len(m.modifiers) :
             m.modifiers[i].Enabled
                 # ModifierSummary(DefaultEnabled(m.allExes[m.selected]))[i].Enabled})

WithinBounds(m) ==
    /\ Len(m.cmdInput.value) <= MaxTuiText
    /\ Len(m.searchInput.value) <= MaxQuery
    /\ Toggled(m) <= MaxToggled

NoEnv == [rnd |-> <<>>, copy |-> "unsupported"]

\* What the world may answer to a key: the draws of the random source for an
\* Apply, the fate of the clipboard command for a Copy.
EnvOf(m, k) ==
    IF m.searching THEN {NoEnv}
    ELSE IF k \in keys.Apply
    THEN {[NoEnv EXCEPT !.rnd = r] : r \in [1..Len(m.cmdInput.value) -> RandDraws]}
    ELSE IF k \in keys.Copy
    THEN {[NoEnv EXCEPT !.copy = o] : o \in CopyOutcomes}
    ELSE {NoEnv}

\* app.go:187-202 on a tea.KeyMsg.
KeyMsg(k) ==
    /\ tui.cmd # "quit"
    /\ \E env \in EnvOf(tui.m, k) :
          LET r == handleKey(tui.m, k, env)
          IN  /\ WithinBounds(r.m)
              /\ tui' = [m |-> r.m, cmd |-> r.cmd]
              /\ stdout' = stdout \o r.printed
    /\ UNCHANGED <<registryVars, callVars, view, test>>

\* app.go:187-194 on a tea.WindowSizeMsg.
WindowSizeMsg(sz) ==
    /\ tui.cmd # "quit"
    /\ tui' = [m |-> updateWindowSize(tui.m, sz[1], sz[2]), cmd |-> "nil"]
    /\ UNCHANGED <<registryVars, callVars, view, test, stdout>>

\* main.go: the modifiers are registered, the profiles loaded, the model built.
InitTui(profiles) ==
    /\ registry = InitRegistry
    /\ order = InitRegistryOrder
    /\ panicked = FALSE
    /\ regArg = InitOrder[Len(InitOrder)]
    /\ pc = [c \in CallIds |-> "idle"]
    /\ command = [c \in CallIds |-> <<>>]
    /\ pf = [c \in CallIds |-> NilProfileFile]
    /\ enabled = [c \in CallIds |-> EmptyMap]
    /\ mods = [c \in CallIds |-> <<>>]
    /\ idx = [c \in CallIds |-> 0]
    /\ tokens = [c \in CallIds |-> 0]
    /\ result = [c \in CallIds |-> EmptyResult]
    /\ err = [c \in CallIds |-> ErrNil]
    /\ applyLog = [c \in CallIds |-> <<>>]
    /\ heap = <<>>
    /\ test = NoTest
    /\ stdout = <<>>
    /\ view = NoView
    /\ tui = [m |-> New(profiles), cmd |-> "nil"]

\* One executable whose profile configures RandomCase alone.
PanelsExes ==
    <<TuiExe(<<"a">>,
             <<TuiProfile("windows", <<CommandElement(<<"a">>)>>,
                          Restrict(DefaultModifiers, {"RandomCase"}))>>)>>

PanelsKeys == {"tab", "shift+tab", " ", "enter", "c", "r", "q", "a", "ctrl+c"}

NextTuiPanels == \E k \in PanelsKeys : KeyMsg(k)

SpecTuiPanels == InitTui(PanelsExes) /\ [][NextTuiPanels]_vars

\* The options panel and the search box, without typing or applying.
OptionsKeys == {"tab", "shift+tab", "up", "down", "j", " ", "/", "esc"}

NextTuiOptions == \E k \in OptionsKeys : KeyMsg(k)

SpecTuiOptions == InitTui(PanelsExes) /\ [][NextTuiOptions]_vars

\* Two executables for different platforms, with different modifiers configured
\* and templates as long as the command may get.
SelectExes ==
    <<TuiExe(<<"a">>,
             <<TuiProfile("windows", <<CommandElement(<<"a", "/">>)>>,
                          Restrict(DefaultModifiers, {"RandomCase"}))>>),
      TuiExe(<<"b">>,
             <<TuiProfile("linux", <<CommandElement(<<"b", "/">>)>>,
                          Restrict(DefaultModifiers, {"Sed"}))>>)>>

SelectKeys == {"tab", "down", "right", "/", "esc", "enter", " "}

NextTuiSelect == \E k \in SelectKeys : KeyMsg(k)

SpecTuiSelect == InitTui(SelectExes) /\ [][NextTuiSelect]_vars

\* No modifier configured: the sidebar is what these executables are for.
SidebarExe(name, platform) ==
    TuiExe(name, <<TuiProfile(platform, <<CommandElement(name)>>, EmptyMap)>>)

\* Six executables, sorted by name, over the three platforms.
SidebarExes ==
    <<SidebarExe(<<"a">>, "windows"), SidebarExe(<<"a", "a">>, "linux"),
      SidebarExe(<<"a", "h">>, "windows"), SidebarExe(<<"h">>, "windows"),
      SidebarExe(<<"h", "a">>, "windows"), SidebarExe(<<"h", "h">>, "windows")>>

SidebarKeys == {"tab", "up", "down", "h", "right", "/", "esc"}

\* Terminals whose sidebar shows five and six rows.
SidebarSizes == {<<80, 12>>, <<80, 13>>}

SidebarKey == \E k \in SidebarKeys : KeyMsg(k)

SidebarResize == \E sz \in SidebarSizes : WindowSizeMsg(sz)

NextTuiSidebar == SidebarKey \/ SidebarResize

SpecTuiSidebar == InitTui(SidebarExes) /\ [][NextTuiSidebar]_vars

(***************************************************************************)
(* Vocabulary of the properties.                                           *)
(***************************************************************************)
\* The call returned / returned without error.
Returned(c) == pc[c] = "done"

Succeeded(c) == pc[c] = "done" /\ err[c] = ErrNil

\* The names of the modifiers invoked so far, in order of invocation.
LogNames(c) == [k \in 1..Len(applyLog[c]) |-> applyLog[c][k].name]

\* The registered names in registration order, as All() lists them.
AllNames == [i \in 1..Len(All) |-> Name(All[i])]

\* The position of a name in the slice the loop ranges over.
PosOf(c, n) == CHOOSE j \in 1..Len(mods[c]) : Name(mods[c][j]) = n

\* The modifier is on in the enabled map / has an entry in the chosen profile.
IsOn(c, n) == n \in DOMAIN enabled[c] /\ enabled[c][n] = TRUE

IsConfigured(c, n) ==
    /\ ~pf[c].isNil
    /\ Len(pf[c].Profiles) > 0
    /\ n \in DOMAIN CallProfile(c).Parameters.Modifiers

\* The loop has finished the iteration of position j.
Passed(c, j) == j \in 1..Len(mods[c]) /\ j < idx[c]

\* The working token sequence the k-th invocation must have received: the output
\* of the latest successful invocation before it, else the tokenizer's output.
RECURSIVE WorkingBefore(_, _)
WorkingBefore(c, k) ==
    IF k <= 1 THEN Tokenize(command[c], CallProfile(c)).tokens
    ELSE IF applyLog[c][k - 1].err = ErrNil THEN applyLog[c][k - 1].out
    ELSE WorkingBefore(c, k - 1)

NoDuplicates(s) == \A i, j \in 1..Len(s) : s[i] = s[j] => i = j

(***************************************************************************)
(* C1: when a modifier's Apply returns an error (ErrNotImplemented or any  *)
(* other), the working token sequence after that step is the one before    *)
(* it, every later registered modifier the loop has reached is invoked if  *)
(* it is enabled and configured, and the call returns a nil error with the *)
(* rendered output.                                                        *)
(***************************************************************************)
C1_ErrorContained ==
    \A c \in CallIds : \A k \in 1..Len(applyLog[c]) :
        applyLog[c][k].err # ErrNil =>
            /\ IF k < Len(applyLog[c])
               THEN /\ applyLog[c][k + 1].arg = applyLog[c][k].arg
                    /\ applyLog[c][k + 1].in = applyLog[c][k].in
               ELSE /\ tokens[c] = applyLog[c][k].arg
                    /\ heap[tokens[c]] = applyLog[c][k].in
            /\ pc[c] \in {"loop", "done"}
            /\ err[c] = ErrNil
            /\ \A j \in 1..Len(mods[c]) :
                  ( /\ j > PosOf(c, applyLog[c][k].name)
                    /\ Passed(c, j)
                    /\ IsOn(c, Name(mods[c][j]))
                    /\ IsConfigured(c, Name(mods[c][j])) )
                  => \E k2 \in (k + 1)..Len(applyLog[c]) :
                        applyLog[c][k2].name = Name(mods[c][j])
            /\ Returned(c) =>
                  /\ mods[c] = All
                  /\ idx[c] = Len(mods[c]) + 1
                  /\ result[c].Output = Render(heap[tokens[c]])

\* A call returned after CharacterInsertion failed on its configuration and
\* RandomCase, registered later, was applied.
C1_Witness ==
    /\ Succeeded(1)
    /\ \E k, k2 \in 1..Len(applyLog[1]) :
          /\ k < k2
          /\ applyLog[1][k].err \notin {ErrNil, ErrNotImplemented}
          /\ applyLog[1][k2].err = ErrNil
    /\ \E k \in 1..Len(applyLog[1]) : applyLog[1][k].err = ErrNotImplemented
    /\ result[1].Output # <<>>

(***************************************************************************)
(* C2: after a successful call every registered modifier that is enabled   *)
(* and configured is in exactly one of Applied, Skipped and Errors: in     *)
(* Skipped iff its Apply returned ErrNotImplemented, in Errors iff it      *)
(* returned another error, in Applied iff it returned none; and no name    *)
(* is listed twice.                                                        *)
(***************************************************************************)
C2_ExactlyOneOutcome ==
    \A c \in CallIds : Succeeded(c) =>
        /\ \A n \in Range(order) : (IsOn(c, n) /\ IsConfigured(c, n)) =>
              LET inApplied == n \in Range(result[c].Applied)
                  inSkipped == n \in Range(result[c].Skipped)
                  inErrors  == n \in DOMAIN result[c].Errors
                  returned  == {applyLog[c][k].err :
                                   k \in {k \in 1..Len(applyLog[c]) : applyLog[c][k].name = n}}
              IN  /\ Cardinality(returned) = 1
                  /\ inSkipped <=> returned = {ErrNotImplemented}
                  /\ inErrors <=> (returned \cap {ErrNil, ErrNotImplemented} = {})
                  /\ inApplied <=> returned = {ErrNil}
                  /\ inErrors => result[c].Errors[n] \in returned
                  /\ Cardinality({b \in {inApplied, inSkipped, inErrors} : b}) = 1
                  /\ ~(inApplied /\ inSkipped) /\ ~(inApplied /\ inErrors)
                  /\ ~(inSkipped /\ inErrors)
        /\ NoDuplicates(result[c].Applied)
        /\ NoDuplicates(result[c].Skipped)

\* A successful call with a modifier in each of the three collections.
C2_Witness ==
    /\ Succeeded(1)
    /\ "RandomCase" \in Range(result[1].Applied)
    /\ "CharacterInsertion" \in DOMAIN result[1].Errors
    /\ Len(result[1].Skipped) >= 2

(***************************************************************************)
(* C3: a registered modifier that is absent from the enabled map, mapped   *)
(* to false, or without a configuration entry in the chosen profile is     *)
(* never invoked, is in none of Applied, Skipped and Errors, and its       *)
(* iteration leaves the working token sequence unchanged.                  *)
(***************************************************************************)
NotEligible(c, n) ==
    \/ n \notin DOMAIN enabled[c]
    \/ enabled[c][n] = FALSE
    \/ ~IsConfigured(c, n)

C3_NeverInvoked ==
    \A c \in CallIds : \A n \in Range(order) :
        (pc[c] # "idle" /\ NotEligible(c, n)) =>
            /\ n \notin Range(LogNames(c))
            /\ n \notin Range(result[c].Applied)
            /\ n \notin Range(result[c].Skipped)
            /\ n \notin DOMAIN result[c].Errors

C3_SkipKeepsTokens ==
    \A c \in CallIds :
        ( /\ pc[c] = "loop"
          /\ idx[c] <= Len(mods[c])
          /\ idx'[c] = idx[c] + 1
          /\ NotEligible(c, Name(mods[c][idx[c]])) )
        => /\ tokens'[c] = tokens[c]
           /\ heap'[tokens[c]] = heap[tokens[c]]
           /\ applyLog'[c] = applyLog[c]
           /\ result'[c] = result[c]

C3_SilentSkip == []C3_NeverInvoked /\ [][C3_SkipKeepsTokens]_vars

\* The loop has passed a modifier mapped to false, one absent from the map or one
\* without configuration, after another modifier was invoked.
C3_Witness ==
    /\ pc[1] = "loop"
    /\ Len(applyLog[1]) >= 1
    /\ \E j \in 2..Len(mods[1]) :
          /\ Passed(1, j)
          /\ NotEligible(1, Name(mods[1][j]))
          /\ Name(mods[1][j - 1]) \in Range(LogNames(1))

(***************************************************************************)
(* C4: All() lists the modifiers in the order in which Register was        *)
(* called; Obfuscate invokes them in that order, each receiving the output *)
(* of the latest successful modifier before it (the tokenizer's output if  *)
(* none); Applied and Skipped are subsequences of the registration order.  *)
(***************************************************************************)
C4_RegistrationOrder ==
    /\ All = SubSeq(InitOrder, 1, Len(order))
    /\ \A c \in CallIds :
          /\ IsSubSeq(LogNames(c), AllNames)
          /\ \A k \in 1..Len(applyLog[c]) : applyLog[c][k].in = WorkingBefore(c, k)
          /\ IsSubSeq(result[c].Applied, order)
          /\ IsSubSeq(result[c].Skipped, order)

\* Three modifiers were invoked and one registered after RandomCase received what
\* RandomCase returned, which differs from the tokenizer's output.
C4_Witness ==
    /\ Len(order) = Len(InitOrder)
    /\ Len(applyLog[1]) >= 3
    /\ \E k \in 2..Len(applyLog[1]) :
          /\ applyLog[1][k - 1].name = "RandomCase"
          /\ applyLog[1][k - 1].err = ErrNil
          /\ applyLog[1][k].in = applyLog[1][k - 1].out
          /\ applyLog[1][k].in # Tokenize(command[1], CallProfile(1)).tokens

(***************************************************************************)
(* C5: Obfuscate returns a non-nil error exactly when the profile file is  *)
(* nil or has no profiles, or the command has no non-whitespace field;     *)
(* then the result is empty and no modifier was invoked.                   *)
(***************************************************************************)
InputDefect(c) ==
    \/ pf[c].isNil
    \/ pf[c].Profiles = <<>>
    \/ \A i \in 1..Len(command[c]) : command[c][i] \in {" ", "\t"}

C5_ErrorIffInputDefect ==
    \A c \in CallIds :
        /\ Returned(c) => (err[c] # ErrNil <=> InputDefect(c))
        /\ (Returned(c) /\ err[c] # ErrNil) =>
              /\ result[c] = EmptyResult
              /\ applyLog[c] = <<>>
        /\ pc[c] = "loop" => ~InputDefect(c)

\* A call failed on a command of blanks though its profile file has profiles.
C5_Witness ==
    /\ Returned(1)
    /\ err[1] # ErrNil
    /\ command[1] = <<" ", " ">>
    /\ ~pf[1].isNil
    /\ Len(pf[1].Profiles) = 2

(***************************************************************************)
(* C6: after any sequence of Register calls the order list has no          *)
(* duplicate name and holds exactly the registry's keys; a Register call   *)
(* with a registered name panics and leaves the registry and the order     *)
(* list unchanged; no step removes or reorders an entry.                   *)
(***************************************************************************)
C6_RegistryConsistent ==
    /\ NoDuplicates(order)
    /\ Range(order) = DOMAIN registry

C6_RegisterStep ==
    /\ (regArg' \in Modifiers /\ Name(regArg') \in DOMAIN registry) =>
          /\ panicked'
          /\ registry' = registry
          /\ order' = order
    /\ IsPrefix(order, order')
    /\ \A n \in DOMAIN registry : n \in DOMAIN registry' /\ registry'[n] = registry[n]

C6_AppendOnlyRegistry == []C6_RegistryConsistent /\ [][C6_RegisterStep]_vars

\* Register panicked on a second modifier with the name of a registered one.
C6_Witness ==
    /\ panicked
    /\ Len(order) = 2
    /\ Name(regArg) \in DOMAIN registry
    /\ registry[Name(regArg)] # regArg

(***************************************************************************)
(* C7: for a command with a field, the tokenizer's sequence has exactly    *)
(* one Command token, at index 0, and so has the working token sequence    *)
(* after every step of the pipeline.                                       *)
(***************************************************************************)
C7_OneCommandToken ==
    \A c \in CallIds : (pc[c] = "loop" \/ Succeeded(c)) =>
        LET toks == heap[tokens[c]]
        IN  /\ Len(toks) >= 1
            /\ toks[1].Type = TokenTypeCommand
            /\ \A i \in 2..Len(toks) : toks[i].Type # TokenTypeCommand

\* RandomCase replaced a working sequence of two tokens.
C7_Witness ==
    /\ pc[1] = "loop"
    /\ Len(heap[tokens[1]]) = 2
    /\ "RandomCase" \in Range(result[1].Applied)
    /\ heap[tokens[1]] # Tokenize(command[1], CallProfile(1)).tokens

(***************************************************************************)
(* C8: round trip. For every quote-balanced command whose fields (a quoted *)
(* run being part of one field) are separated by single spaces, without    *)
(* leading or trailing whitespace, Render(Tokenize(s)) = s.                *)
(***************************************************************************)
\* Whether position i of s lies inside a double-quoted run (the quotes included).
RECURSIVE QuotesOpenBefore(_, _)
QuotesOpenBefore(s, i) ==
    IF i <= 1 THEN FALSE
    ELSE IF s[i - 1] = "\"" THEN ~QuotesOpenBefore(s, i - 1)
    ELSE QuotesOpenBefore(s, i - 1)

QuoteBalanced(s) == ~QuotesOpenBefore(s, Len(s) + 1)

\* A blank that separates two fields: one outside every quoted run.
Separator(s, i) == s[i] \in {" ", "\t"} /\ ~QuotesOpenBefore(s, i)

SingleSpaced(s) ==
    /\ s # <<>>
    /\ ~Separator(s, 1)
    /\ ~Separator(s, Len(s))
    /\ \A i \in 1..Len(s) : Separator(s, i) => s[i] = " "
    /\ \A i \in 1..(Len(s) - 1) : ~(Separator(s, i) /\ Separator(s, i + 1))

C8_RoundTrip ==
    \A c \in CallIds :
        (pc[c] = "done" /\ QuoteBalanced(command[c]) /\ SingleSpaced(command[c]))
        => result[c].Output = command[c]

(***************************************************************************)
(* C9: whatever Apply of a registered modifier returns (on success, on     *)
(* ErrNotImplemented, on any other error), the returned sequence has the   *)
(* length of the sequence passed in and the same token type at every       *)
(* index; so the tokens Obfuscate renders have the number and the types of *)
(* the tokens Tokenize produced.                                           *)
(***************************************************************************)
SameShape(a, b) ==
    /\ Len(a) = Len(b)
    /\ \A i \in 1..Len(a) : a[i].Type = b[i].Type

C9_TokenShapeKept ==
    \A c \in CallIds :
        /\ \A k \in 1..Len(applyLog[c]) :
              SameShape(applyLog[c][k].out, applyLog[c][k].in)
        /\ (pc[c] = "loop" \/ Succeeded(c)) =>
              SameShape(heap[tokens[c]], Tokenize(command[c], CallProfile(c)).tokens)

\* A call returned after a RandomCase that rewrote two tokens, a modifier that is
\* not implemented, and a modifier that rejected its configuration.
C9_Witness ==
    /\ Succeeded(1)
    /\ Len(heap[tokens[1]]) = 2
    /\ \E k \in 1..Len(applyLog[1]) :
          /\ applyLog[1][k].err = ErrNil
          /\ applyLog[1][k].out # applyLog[1][k].in
    /\ \E k \in 1..Len(applyLog[1]) : ErrorsIs(applyLog[1][k].err, ErrNotImplemented)
    /\ \E k \in 1..Len(applyLog[1]) :
          /\ applyLog[1][k].err # ErrNil
          /\ ~ErrorsIs(applyLog[1][k].err, ErrNotImplemented)

(***************************************************************************)
(* C10: RandomCase.Apply never changes the caller's token sequence: after  *)
(* the call, on success and on error, every element of the input has its   *)
(* original type and value; a successful call returns a sequence distinct  *)
(* from the input, so a later write to one does not show in the other.     *)
(***************************************************************************)
RandomCaseTest == test.pc \in {"returned", "written"} /\ test.mod = "randomcase"

C10_InputNotMutated ==
    RandomCaseTest =>
        /\ test.pc = "returned" => heap[test.input] = test.orig
        /\ test.err = ErrNil =>
              /\ test.got # test.input
              /\ (test.pc = "written" /\ test.wrote = test.got) =>
                    heap[test.input] = test.orig
              /\ (test.pc = "written" /\ test.wrote = test.input) =>
                    heap[test.got] = test.out

\* RandomCase flipped a rune, the caller then wrote into the returned slice.
C10_Witness ==
    /\ RandomCaseTest
    /\ test.err = ErrNil
    /\ test.out # test.orig
    /\ test.pc = "written"
    /\ test.wrote = test.got
    /\ heap[test.got] # test.out

(***************************************************************************)
(* C11: with Probability "0.0", RandomCase.Apply returns without error a   *)
(* sequence equal to its input, for every input and every outcome of the   *)
(* random source.                                                          *)
(***************************************************************************)
C11_ProbabilityZeroIdentity ==
    (RandomCaseTest /\ test.cfg.json = "object" /\ test.cfg.Probability = "0.0")
    => /\ test.err = ErrNil
       /\ test.out = test.orig

(***************************************************************************)
(* C12: with Probability "1.0", RandomCase.Apply flips the case of every   *)
(* letter of every eligible token (upper becomes lower, lower becomes      *)
(* upper) and passes every non-letter through unchanged, for every outcome *)
(* of the random source.                                                   *)
(***************************************************************************)
\* A letter with its case flipped.
Flipped(r) == IF IsUpper(r) THEN ToLower(r) ELSE ToUpper(r)

C12_ProbabilityOneFlipsLetters ==
    (RandomCaseTest /\ test.cfg.json = "object" /\ test.cfg.Probability = "1.0")
    => /\ test.err = ErrNil
       /\ Len(test.out) = Len(test.orig)
       /\ \A i \in 1..Len(test.orig) :
             test.orig[i].Type \in test.cfg.AppliesTo =>
                /\ Len(test.out[i].Value) = Len(test.orig[i].Value)
                /\ \A j \in 1..Len(test.orig[i].Value) :
                      test.out[i].Value[j] =
                         IF IsLetter(test.orig[i].Value[j])
                         THEN Flipped(test.orig[i].Value[j])
                         ELSE test.orig[i].Value[j]

(***************************************************************************)
(* C13: for every modifier, a token whose type is not listed in the        *)
(* configuration's AppliesTo has the same value in Apply's output as in    *)
(* its input, for every probability and every outcome of the random source.*)
(***************************************************************************)
C13_IneligibleUntouched ==
    (test.pc \in {"returned", "written"} /\ test.cfg.json = "object")
    => /\ Len(test.out) = Len(test.orig)
       /\ \A i \in 1..Len(test.orig) :
             test.orig[i].Type \notin test.cfg.AppliesTo =>
                test.out[i].Value = test.orig[i].Value

\* RandomCase with probability 1.0 on arguments rewrote the argument next to a
\* command of the same value, which it left alone.
C13_Witness ==
    /\ test.pc = "returned"
    /\ test.mod = "randomcase"
    /\ test.cfg.Probability = "1.0"
    /\ test.cfg.AppliesTo = {TokenTypeArgument}
    /\ test.err = ErrNil
    /\ test.orig = <<Token(TokenTypeCommand, <<"a", "B">>),
                     Token(TokenTypeArgument, <<"a", "B">>)>>
    /\ test.out[1].Value = <<"a", "B">>
    /\ test.out[2].Value = <<"A", "b">>

(***************************************************************************)
(* C14: a Probability that is not a number in [0.0, 1.0] is never accepted:*)
(* RandomCase.Apply and CharacterInsertion.Apply return a non-nil error    *)
(* that is not ErrNotImplemented, together with the unmodified input       *)
(* tokens.                                                                 *)
(***************************************************************************)
\* The probability strings of the model that denote a number of [0.0, 1.0].
InUnitInterval(p) == p \in {"0.0", "0.5", "1.0"}

C14_BadProbabilityRejected ==
    (/\ test.pc \in {"returned", "written"}
     /\ test.mod \in {"randomcase", "charinsert"}
     /\ test.cfg.json = "object"
     /\ ~InUnitInterval(test.cfg.Probability))
    => /\ test.err # ErrNil
       /\ ~ErrorsIs(test.err, ErrNotImplemented)
       /\ test.out = test.orig

(***************************************************************************)
(* C16: Apply of every modifier has no effect besides its return value and *)
(* its draws from the random source: it writes nothing to standard output, *)
(* to the registry or to any shared state.                                 *)
(***************************************************************************)
C16_ApplyPure ==
    test.pc \in {"returned", "written"} =>
        /\ stdout = <<>>
        /\ registry = EmptyMap
        /\ order = <<>>
        /\ test.pc = "returned" => heap[test.input] = test.orig

(***************************************************************************)
(* C15: for each of the ten registered modifiers, when it is enabled and   *)
(* the profile gives it a malformed configuration, Obfuscate records its   *)
(* name under Errors (not under Skipped or Applied), leaves the working    *)
(* tokens as they were and goes on with the remaining modifiers.           *)
(***************************************************************************)
MalformedConfig(cfg) == cfg.json = "invalid" \/ ~InUnitInterval(cfg.Probability)

C15_MalformedConfigIsError ==
    \A c \in CallIds : \A k \in 1..Len(applyLog[c]) :
        LET name == applyLog[c][k].name
        IN  MalformedConfig(CallProfile(c).Parameters.Modifiers[name]) =>
               /\ name \in DOMAIN result[c].Errors
               /\ name \notin Range(result[c].Skipped)
               /\ name \notin Range(result[c].Applied)
               /\ applyLog[c][k].out = applyLog[c][k].in

(***************************************************************************)
(* C17: Tokenize binds flags before it looks at content: a field that is a *)
(* spelling of a known ArgumentDefinition becomes an Argument token and    *)
(* the next valueCount fields become Value tokens, even when they look     *)
(* like a URL or a path.                                                   *)
(***************************************************************************)
\* The tokens of a call whose Tokenize succeeded.
Tokenized(c) == pc[c] \in {"tokenized", "done"} /\ err[c] = ErrNil

KnownFlag(args, f) == \E k \in 1..Len(args) : f \in Range(args[k].Flags)

ValueCountOf(args, f) ==
    args[CHOOSE k \in 1..Len(args) : f \in Range(args[k].Flags)].ValueCount

\* The role of every field: the command, a flag, a value bound to the flag
\* before it, or a free field.
RECURSIVE RolesScan(_, _, _, _, _)
RolesScan(fields, args, i, pending, acc) ==
    IF i > Len(fields) THEN acc
    ELSE IF i = 1 THEN RolesScan(fields, args, 2, 0, Append(acc, "command"))
    ELSE IF pending > 0
    THEN RolesScan(fields, args, i + 1, pending - 1, Append(acc, "bound"))
    ELSE IF KnownFlag(args, fields[i])
    THEN RolesScan(fields, args, i + 1, ValueCountOf(args, fields[i]), Append(acc, "flag"))
    ELSE RolesScan(fields, args, i + 1, 0, Append(acc, "free"))

Roles(c) == RolesScan(Fields(command[c]), CallProfile(c).Parameters.Arguments, 1, 0, <<>>)

C17_FlagBindingFirst ==
    \A c \in CallIds : Tokenized(c) =>
        /\ Len(heap[tokens[c]]) = Len(Roles(c))
        /\ \A i \in 1..Len(Roles(c)) :
              /\ Roles(c)[i] = "flag" => heap[tokens[c]][i].Type = TokenTypeArgument
              /\ Roles(c)[i] = "bound" => heap[tokens[c]][i].Type = TokenTypeValue

(***************************************************************************)
(* C18: every field after the first that is neither a known flag nor bound *)
(* as a flag's value is typed by its content: Url if it starts with        *)
(* http:// or https://, else Path if it holds '/' or '\', else Value.      *)
(***************************************************************************)
HasPrefix(s, prefix) == Len(s) >= Len(prefix) /\ SubSeq(s, 1, Len(prefix)) = prefix

TypeByContent(f) ==
    IF HasPrefix(f, <<"h", "t", "t", "p", ":", "/", "/">>)
       \/ HasPrefix(f, <<"h", "t", "t", "p", "s", ":", "/", "/">>)
    THEN TokenTypeURL
    ELSE IF \E j \in 1..Len(f) : f[j] \in {"/", "\\"}
    THEN TokenTypePath
    ELSE TokenTypeValue

C18_TypeByContent ==
    \A c \in CallIds : Tokenized(c) =>
        /\ Len(heap[tokens[c]]) = Len(Roles(c))
        /\ \A i \in 1..Len(Roles(c)) :
              Roles(c)[i] = "free" =>
                 heap[tokens[c]][i].Type = TypeByContent(Fields(command[c])[i])

(***************************************************************************)
(* C19: Tokenize takes a quoted run as one field even when it holds a      *)
(* blank, and the token value has the surrounding quotes stripped.         *)
(***************************************************************************)
\* The positions where a field starts / ends when quoted runs are atomic.
FieldStarts(s) == {i \in 1..Len(s) : ~Separator(s, i) /\ (i = 1 \/ Separator(s, i - 1))}

FieldEnd(s, i) ==
    CHOOSE j \in i..Len(s) :
        /\ \A k \in i..j : ~Separator(s, k)
        /\ (j = Len(s) \/ Separator(s, j + 1))

\* The k-th smallest element of a set of positions.
Nth(S, k) == CHOOSE i \in S : Cardinality({j \in S : j <= i}) = k

\* The fields of s, quoted runs being atomic, with their quotes.
QuotedFields(s) ==
    [k \in 1..Cardinality(FieldStarts(s)) |->
        SubSeq(s, Nth(FieldStarts(s), k), FieldEnd(s, Nth(FieldStarts(s), k)))]

NotQuote(ch) == ch # "\""

StripQuotes(f) == SelectSeq(f, NotQuote)

C19_QuotedRunAtomic ==
    \A c \in CallIds : (Tokenized(c) /\ QuoteBalanced(command[c])) =>
        /\ Len(heap[tokens[c]]) = Len(QuotedFields(command[c]))
        /\ \A k \in 1..Len(heap[tokens[c]]) :
              heap[tokens[c]][k].Value = StripQuotes(QuotedFields(command[c])[k])

(***************************************************************************)
(* C20: Render joins the values with single spaces and wraps in quotes     *)
(* every token whose value holds a blank, so that each token stays exactly *)
(* one shell field of the output; a value that already has its quotes is   *)
(* not quoted again.                                                       *)
(***************************************************************************)
HasBlank(v) == \E j \in 1..Len(v) : v[j] \in {" ", "\t"}

AlreadyQuoted(v) == Len(v) >= 2 /\ v[1] = "\"" /\ v[Len(v)] = "\""

C20_RenderKeepsFields ==
    \A c \in CallIds : (pc[c] = "done" /\ err[c] = ErrNil /\ tokens[c] # 0) =>
        LET toks == heap[tokens[c]]
            out == QuotedFields(result[c].Output)
        IN  /\ Len(out) = Len(toks)
            /\ \A k \in 1..Len(toks) :
                  /\ StripQuotes(out[k]) = StripQuotes(toks[k].Value)
                  /\ (~HasBlank(toks[k].Value) \/ AlreadyQuoted(toks[k].Value))
                        => out[k] = toks[k].Value

(***************************************************************************)
(* C21: Obfuscate selects the first profile of the file whose platform is  *)
(* the host platform and, only if none matches, the first profile; the     *)
(* selected profile's argument definitions and modifier configurations are *)
(* the ones used for the whole call. The code never reads the host         *)
(* platform, so the policy has to give the profile the call uses on every  *)
(* host.                                                                   *)
(***************************************************************************)
HostPlatforms == {"windows", "linux"}

PolicyPick(pfile, host) ==
    IF \E i \in 1..Len(pfile.Profiles) : pfile.Profiles[i].Platform = host
    THEN pfile.Profiles[CHOOSE i \in 1..Len(pfile.Profiles) :
                           /\ pfile.Profiles[i].Platform = host
                           /\ \A j \in 1..(i - 1) : pfile.Profiles[j].Platform # host]
    ELSE pfile.Profiles[1]

C21_PlatformProfile ==
    \A c \in CallIds : \A host \in HostPlatforms :
        (pc[c] \in {"loop", "done"} /\ ~pf[c].isNil /\ Len(pf[c].Profiles) > 0) =>
            /\ CallProfile(c) = PolicyPick(pf[c], host)
            /\ \A k \in 1..Len(applyLog[c]) :
                  applyLog[c][k].name \in
                     DOMAIN PolicyPick(pf[c], host).Parameters.Modifiers

(***************************************************************************)
(* C22: with Probability "1.0", a non-empty Characters pool and a numeric  *)
(* Offset, CharacterInsertion.Apply succeeds and returns, for every        *)
(* eligible token, the input value with exactly one rune of the pool       *)
(* inserted at rune index min(Offset, rune length); ineligible tokens are  *)
(* unchanged.                                                              *)
(***************************************************************************)
Returns(m) == test.pc \in {"returned", "written"} /\ test.mod = m /\ test.cfg.json = "object"

Min(a, b) == IF a <= b THEN a ELSE b

InsertAt(v, k, ch) == SubSeq(v, 1, k) \o <<ch>> \o SubSeq(v, k + 1, Len(v))

C22_InsertsOneRune ==
    (/\ Returns("charinsert")
     /\ test.cfg.Probability = "1.0"
     /\ test.cfg.Characters # <<>>
     /\ Atoi(test.cfg.Offset).err = ErrNil)
    => /\ test.err = ErrNil
       /\ Len(test.out) = Len(test.orig)
       /\ \A i \in 1..Len(test.orig) :
             IF test.orig[i].Type \in test.cfg.AppliesTo
             THEN /\ test.out[i].Type = test.orig[i].Type
                  /\ \E ch \in Range(test.cfg.Characters) :
                        test.out[i].Value =
                           InsertAt(test.orig[i].Value,
                                    Min(Atoi(test.cfg.Offset).n, Len(test.orig[i].Value)),
                                    ch)
             ELSE test.out[i] = test.orig[i]

(***************************************************************************)
(* C23: CharacterInsertion.Apply with a non-numeric Probability or a       *)
(* non-integer Offset returns an error that wraps a strconv.NumError and   *)
(* the input tokens unchanged, each field being checked whether or not the *)
(* other one is valid.                                                     *)
(***************************************************************************)
C23_ParseErrorsWrapNumError ==
    (/\ Returns("charinsert")
     /\ \/ ParseFloat(test.cfg.Probability).err # ErrNil
        \/ Atoi(test.cfg.Offset).err # ErrNil)
    => /\ ErrorsIs(test.err, NumError)
       /\ test.out = test.orig

(***************************************************************************)
(* C25: ReorderArgs.Apply returns, for every input and configuration, a    *)
(* sequence that has the Command token at index 0, is a permutation of the *)
(* input tokens and keeps every Argument token immediately followed by the *)
(* Value tokens that followed it in the input.                             *)
(***************************************************************************)
Count(seq, x) == Cardinality({i \in 1..Len(seq) : seq[i] = x})

IsPermutation(a, b) ==
    /\ Len(a) = Len(b)
    /\ \A x \in Range(a) \cup Range(b) : Count(a, x) = Count(b, x)

\* The number of Value tokens that follow position i directly.
ValuesAfter(seq, i) ==
    Cardinality({k \in 1..(Len(seq) - i) :
                    \A n \in 1..k : seq[i + n].Type = TokenTypeValue})

GroupsKept(a, b) ==
    \A i \in 1..Len(a) : a[i].Type = TokenTypeArgument =>
        \E j \in 1..Len(b) :
            /\ b[j] = a[i]
            /\ j + ValuesAfter(a, i) <= Len(b)
            /\ \A n \in 1..ValuesAfter(a, i) : b[j + n] = a[i + n]

C25_ReorderKeepsGroups ==
    (test.pc \in {"returned", "written"} /\ test.mod = "reorderargs") =>
        /\ (test.orig # <<>> /\ test.orig[1].Type = TokenTypeCommand) =>
              (test.out # <<>> /\ test.out[1] = test.orig[1])
        /\ IsPermutation(test.orig, test.out)
        /\ GroupsKept(test.orig, test.out)

\* ReorderArgs returned from a command, a flag with its value, and another flag.
C25_Witness ==
    /\ test.pc = "returned"
    /\ test.mod = "reorderargs"
    /\ test.cfg = StubCfg
    /\ Len(test.orig) = 4
    /\ test.orig[1].Type = TokenTypeCommand
    /\ ValuesAfter(test.orig, 2) = 1
    /\ test.out = test.orig

(***************************************************************************)
(* C26: Shorthands.Apply with probability 1.0 over the known flags         *)
(* {-NonInteractive, -NoProfile, -Nop} replaces an Argument token          *)
(* -NonInteractive by its option character plus the shortest prefix shared *)
(* with no other known flag (-Non, never -N or -No); a flag without such a *)
(* prefix shorter than itself is left unchanged.                           *)
(***************************************************************************)
\* The lengths of the prefixes of f (option character included) that no other
\* known flag starts with.
UniquePrefixLengths(f) ==
    {n \in 2..(Len(f) - 1) :
        \A g \in KnownFlags \ {f} : ~IsPrefix(SubSeq(f, 1, n), g)}

Abbreviation(f) ==
    IF UniquePrefixLengths(f) = {} THEN f
    ELSE SubSeq(f, 1, CHOOSE n \in UniquePrefixLengths(f) :
                         \A k \in UniquePrefixLengths(f) : n <= k)

C26_ShortestUniquePrefix ==
    (/\ Returns("shorthands")
     /\ test.cfg.Probability = "1.0"
     /\ TokenTypeArgument \in test.cfg.AppliesTo)
    => /\ test.err = ErrNil
       /\ Len(test.out) = Len(test.orig)
       /\ \A i \in 1..Len(test.orig) :
             (test.orig[i].Type = TokenTypeArgument /\ test.orig[i].Value \in KnownFlags)
             => test.out[i].Value = Abbreviation(test.orig[i].Value)

(***************************************************************************)
(* C27: UrlTransformer.Apply, when triggered on a Url token whose host is  *)
(* a literal IPv4 address, replaces the host by its 32-bit integer, 32-bit *)
(* hexadecimal or per-octet octal form (127.0.0.1 becomes 2130706433 or    *)
(* 0x7f000001), and leaves a Url token with another host unchanged.        *)
(***************************************************************************)
IPv4Value(o) == ((o[1] * 256 + o[2]) * 256 + o[3]) * 256 + o[4]

IntegerForm(o) == FormatInt(IPv4Value(o), 10)

PadLeft(digits, n) == [i \in 1..(n - Len(digits)) |-> "0"] \o digits

HexForm(o) == <<"0", "x">> \o PadLeft(FormatInt(IPv4Value(o), 16), 8)

OctalOctet(n) == IF n = 0 THEN <<"0">> ELSE <<"0">> \o FormatInt(n, 8)

OctalForm(o) ==
    OctalOctet(o[1]) \o <<".">> \o OctalOctet(o[2]) \o <<".">>
    \o OctalOctet(o[3]) \o <<".">> \o OctalOctet(o[4])

HostForms(o) == {IntegerForm(o), HexForm(o), OctalForm(o)}

C27_IPv4HostReencoded ==
    (/\ Returns("urltransform")
     /\ test.cfg.Probability = "1.0"
     /\ TokenTypeURL \in test.cfg.AppliesTo)
    => /\ test.err = ErrNil
       /\ Len(test.out) = Len(test.orig)
       /\ \A i \in 1..Len(test.orig) :
             test.orig[i].Type = TokenTypeURL =>
                IF test.orig[i].Value = HttpURL(Dotted(Loopback))
                THEN test.out[i].Value \in {HttpURL(h) : h \in HostForms(Loopback)}
                ELSE test.out[i].Value = test.orig[i].Value

(***************************************************************************)
(* C24: a degenerate but well-formed configuration, CharacterInsertion     *)
(* with an empty Characters pool and probability 1.0, never produces an    *)
(* unrecoverable fault: Apply returns normally (a no-op result or an error *)
(* value), and inside Obfuscate the sibling modifiers still run and the    *)
(* token sequence is not corrupted.                                        *)
(***************************************************************************)
EmptyPool(c, name) ==
    /\ name = "CharacterInsertion"
    /\ CallProfile(c).Parameters.Modifiers[name].json = "object"
    /\ CallProfile(c).Parameters.Modifiers[name].Characters = <<>>

C24_EmptyPoolIsSafe ==
    \A c \in CallIds : \A k \in 1..Len(applyLog[c]) :
        EmptyPool(c, applyLog[c][k].name) =>
            /\ applyLog[c][k].out = applyLog[c][k].in
            /\ ~panicked
            /\ pc[c] \in {"loop", "done"}
            /\ err[c] = ErrNil
            /\ \A j \in 1..Len(mods[c]) :
                  ( /\ j > PosOf(c, applyLog[c][k].name)
                    /\ Passed(c, j)
                    /\ IsOn(c, Name(mods[c][j]))
                    /\ IsConfigured(c, Name(mods[c][j])) )
                  => Name(mods[c][j]) \in Range(LogNames(c))
            /\ (pc[c] = "loop" \/ Succeeded(c)) =>
                  SameShape(heap[tokens[c]], Tokenize(command[c], CallProfile(c)).tokens)

\* A call returned two tokens after CharacterInsertion met an empty pool and
\* RandomCase, later in the loop, rewrote the tokens.
C24_Witness ==
    /\ Succeeded(1)
    /\ Len(heap[tokens[1]]) = 2
    /\ \E k, k2 \in 1..Len(applyLog[1]) :
          /\ k < k2
          /\ EmptyPool(1, applyLog[1][k].name)
          /\ applyLog[1][k2].name = "RandomCase"
          /\ applyLog[1][k2].err = ErrNil
          /\ applyLog[1][k2].out # applyLog[1][k2].in
    /\ result[1].Output # <<>>

(***************************************************************************)
(* C28: after initialization the registry is read-only and token sequences *)
(* are call-local: no step of Engine.Obfuscate, ModifierSummary, All or    *)
(* Get writes the registry map or its order list, and for any interleaving *)
(* of two concurrent Obfuscate calls on the same Engine each call's        *)
(* working token sequence is touched only by that call, so each call's     *)
(* Applied/Skipped/Errors and token count equal those of the same call run *)
(* alone.                                                                  *)
(***************************************************************************)
\* engine.go:68-92 run to the end by one call with nothing else running.
RECURSIVE AloneLoop(_, _, _, _, _, _)
AloneLoop(i, h, t, res, profile, en) ==
    IF i > Len(All)
    THEN [result |-> res, count |-> Len(h[t]), failed |-> FALSE]
    ELSE IF \/ ~Lookup(en, Name(All[i]))
            \/ Name(All[i]) \notin DOMAIN profile.Parameters.Modifiers
    THEN AloneLoop(i + 1, h, t, res, profile, en)
    ELSE LET rawCfg == profile.Parameters.Modifiers[Name(All[i])]
             r == Apply(All[i], h, t, rawCfg,
                        [k \in 1..NumDraws(All[i], h[t], rawCfg) |-> 0])
         IN  AloneLoop(i + 1, r.heap, NextTokens(t, r),
                       IF r.err # ErrNil THEN RecordError(res, Name(All[i]), r.err)
                       ELSE RecordApplied(res, Name(All[i])),
                       profile, en)

\* engine.go:49-100 run alone on the arguments of a call.
RunAlone(cmd, pfile, en) ==
    IF pfile.isNil \/ Len(pfile.Profiles) = 0
    THEN [result |-> EmptyResult, count |-> 0, failed |-> TRUE]
    ELSE IF Tokenize(cmd, pickProfile(pfile)).err # ErrNil
    THEN [result |-> EmptyResult, count |-> 0, failed |-> TRUE]
    ELSE AloneLoop(1, Alloc(<<>>, Tokenize(cmd, pickProfile(pfile)).tokens),
                   NewAddr(<<>>), EmptyResult, pickProfile(pfile), en)

Alone(c) == RunAlone(command[c], pf[c], enabled[c])

\* The step is not one of call d, which is in its loop.
Bystander(d) == pc[d] = "loop" /\ pc'[d] = pc[d] /\ idx'[d] = idx[d]

CallLocalState ==
    /\ (\A c \in CallIds : pc[c] = "loop") =>
          \A c, d \in CallIds : c # d => tokens[c] # tokens[d]
    /\ \A c \in CallIds :
          LET alone == Alone(c)
          IN  /\ (pc[c] = "loop" /\ idx[c] > Len(mods[c])) =>
                    Len(heap[tokens[c]]) = alone.count
              /\ Returned(c) =>
                    /\ (err[c] # ErrNil) = alone.failed
                    /\ result[c].Applied = alone.result.Applied
                    /\ result[c].Skipped = alone.result.Skipped
                    /\ result[c].Errors = alone.result.Errors
                    /\ Succeeded(c) => Len(Fields(result[c].Output)) = alone.count

CallLocalStep ==
    /\ registry' = registry
    /\ order' = order
    /\ \A d \in CallIds :
          Bystander(d) =>
              /\ tokens'[d] = tokens[d]
              /\ heap'[tokens[d]] = heap[tokens[d]]

C28_RegistryReadOnlyTokensCallLocal == [](CallLocalState) /\ [][CallLocalStep]_vars

\* Both calls are at the end of their loops at the same time, on commands of
\* different length: one applied RandomCase, the other recorded its error.
C28_Witness ==
    /\ \A c \in CallIds : pc[c] = "loop" /\ idx[c] > Len(mods[c])
    /\ Len(heap[tokens[1]]) = 2
    /\ Len(heap[tokens[2]]) = 1
    /\ "RandomCase" \in Range(result[1].Applied)
    /\ "RandomCase" \in DOMAIN result[2].Errors
    /\ view.call = "ModifierSummary"

(***************************************************************************)
(* C29: ModifierSummary(enabled) returns exactly one entry per registered  *)
(* modifier, in registration order, with that modifier's name and          *)
(* description and Enabled equal to enabled[name] (false when the name is  *)
(* absent); names in the enabled map that are not registered produce no    *)
(* entry, and the enabled map and registry are left unchanged.             *)
(***************************************************************************)
\* The step is a return of ModifierSummary.
SummaryReturns == view'.call = "ModifierSummary" /\ view' # view

SummaryStep ==
    SummaryReturns =>
        /\ Len(view'.summary) = Len(order)
        /\ \A i \in 1..Len(order) :
              /\ view'.summary[i].Name = order[i]
              /\ view'.summary[i].Description = Description(registry[order[i]])
              /\ view'.summary[i].Enabled =
                    (order[i] \in DOMAIN view'.enabled /\ view'.enabled[order[i]] = TRUE)
        /\ \A n \in DOMAIN view'.enabled :
              n \notin DOMAIN registry =>
                  \A i \in 1..Len(view'.summary) : view'.summary[i].Name # n
        /\ \A n \in DOMAIN registry :
              Cardinality({i \in 1..Len(view'.summary) : view'.summary[i].Name = n}) = 1
        /\ view'.enabledAfter = view'.enabled
        /\ registry' = registry
        /\ order' = order

C29_SummaryPerRegistered == [][SummaryStep]_vars

\* A summary of three registered modifiers, one of them enabled, asked with
\* a map that also names a modifier nobody registered.
C29_Witness ==
    /\ view.call = "ModifierSummary"
    /\ Len(view.summary) = 3
    /\ "Bogus" \in DOMAIN view.enabled
    /\ \E i, j \in 1..3 : view.summary[i].Enabled /\ ~view.summary[j].Enabled

(***************************************************************************)
(* C30: DefaultEnabled(pf) returns a map in which every registered         *)
(* modifier is enabled (maps to true), for every profile file that has at  *)
(* least one profile.                                                      *)
(***************************************************************************)
C30_DefaultEnablesEveryRegistered ==
    ( /\ view.call = "DefaultEnabled"
      /\ ~view.pf.isNil
      /\ Len(view.pf.Profiles) >= 1 )
    => \A n \in DOMAIN registry :
          n \in DOMAIN view.defaults /\ view.defaults[n] = TRUE

(***************************************************************************)
(* C36: in this build, for every command, profile and enabled map, the     *)
(* Applied list of Engine.Obfuscate contains no name other than RandomCase,*)
(* and Output equals the whitespace-separated fields of the command joined *)
(* by single spaces with at most the letter case of characters changed     *)
(* (same fields, same order, same length in runes).                        *)
(***************************************************************************)
\* The same text up to the case of its letters.
SameButCase(a, b) ==
    /\ Len(a) = Len(b)
    /\ \A i \in 1..Len(a) :
          \/ a[i] = b[i]
          \/ IsLetter(a[i]) /\ IsLetter(b[i]) /\ ToLower(a[i]) = ToLower(b[i])

C36_OnlyCaseChanges ==
    \A c \in CallIds :
        Succeeded(c) =>
            /\ Range(result[c].Applied) \subseteq {"RandomCase"}
            /\ Len(Fields(result[c].Output)) = Len(Fields(command[c]))
            /\ SameButCase(result[c].Output, Join(Fields(command[c]), <<" ">>))

(***************************************************************************)
(* The terminal program: what a key would do in the state reached.         *)
(***************************************************************************)
Panels == {panelSidebar, panelInput, panelOptions, panelOutput}

\* The panel that follows p on the screen, and the one that precedes it.
PanelAfter(p) ==
    CASE p = panelSidebar -> panelInput [] p = panelInput -> panelOptions
      [] p = panelOptions -> panelOutput [] p = panelOutput -> panelSidebar

PanelBefore(p) == CHOOSE q \in Panels : PanelAfter(q) = p

\* The model after key k, when the world answers env.
PressIn(m, k, env) == handleKey(m, k, env).m

Press(m, k) == PressIn(m, k, NoEnv)

\* C31: outside search mode Tab moves the focus to the next of the four panels
\* and Shift+Tab to the previous one, cyclically: Tab then Shift+Tab restores
\* the focus and four Tabs return to the start. The focus is always one of the
\* four panels, and after Tab or Shift+Tab the command input widget is focused
\* iff the command input panel is.
C31_TabCyclesFocus ==
    /\ tui.m.focused \in Panels
    /\ ~tui.m.searching =>
          LET t == Press(tui.m, "tab")
              b == Press(tui.m, "shift+tab")
          IN  /\ t.focused = PanelAfter(tui.m.focused)
              /\ b.focused = PanelBefore(tui.m.focused)
              /\ Press(t, "shift+tab").focused = tui.m.focused
              /\ Press(Press(Press(t, "tab"), "tab"), "tab").focused = tui.m.focused
              /\ t.cmdInput.focus <=> (t.focused = panelInput)
              /\ b.cmdInput.focus <=> (b.focused = panelInput)

\* Tab has brought the focus from the sidebar to the output panel, past the
\* command input, whose widget is blurred again.
C31_Witness ==
    /\ tui.m.focused = panelOutput
    /\ ~tui.m.cmdInput.focus
    /\ ~tui.m.searching

DefaultSummary(m) == ModifierSummary(DefaultEnabled(m.allExes[m.selected]))

\* C32: with the options panel focused Space flips the Enabled flag of the
\* modifier under modCursor and of no other; with another panel focused it
\* changes no flag. modCursor is always 0 or a valid index of the list.
C32_SpaceTogglesUnderCursor ==
    /\ tui.m.modCursor = 0 \/ tui.m.modCursor \in 0..(Len(tui.m.modifiers) - 1)
    /\ LET n == Press(tui.m, " ")
       IN  IF tui.m.focused = panelOptions
           THEN /\ Len(n.modifiers) = Len(tui.m.modifiers)
                /\ \A i \in 1..Len(tui.m.modifiers) :
                      /\ n.modifiers[i].Name = tui.m.modifiers[i].Name
                      /\ n.modifiers[i].Enabled =
                            IF i = tui.m.modCursor + 1
                            THEN ~tui.m.modifiers[i].Enabled
                            ELSE tui.m.modifiers[i].Enabled
           ELSE n.modifiers = tui.m.modifiers

\* The cursor was moved down the options and Space has switched the modifier
\* under it away from its default.
C32_Witness ==
    /\ tui.m.focused = panelOptions
    /\ tui.m.modCursor > 0
    /\ tui.m.modifiers[tui.m.modCursor + 1].Enabled
           # DefaultSummary(tui.m)[tui.m.modCursor + 1].Enabled

\* C33: outside search mode 'r' clears the output, the copy message, the
\* status message and the last error, and leaves the selected executable, the
\* sidebar cursor and filter, the toggles, the focus and the command text.
C33_ResetClearsOutputOnly ==
    ~tui.m.searching =>
        LET n == Press(tui.m, "r")
        IN  /\ n.output = <<>>
            /\ n.outputView.content = <<>>
            /\ n.copyMsg = <<>>
            /\ n.statusMsg = <<>>
            /\ n.lastErr = ErrNil
            /\ n.selected = tui.m.selected
            /\ n.exeCursor = tui.m.exeCursor
            /\ n.exeOffset = tui.m.exeOffset
            /\ n.osFilter = tui.m.osFilter
            /\ n.searchInput = tui.m.searchInput
            /\ n.filtered = tui.m.filtered
            /\ n.modifiers = tui.m.modifiers
            /\ n.modCursor = tui.m.modCursor
            /\ n.focused = tui.m.focused
            /\ n.cmdInput = tui.m.cmdInput

\* There is an output, it was copied, a modifier is off its default and the
\* command was edited: all that 'r' has to clear and to keep.
C33_Witness ==
    /\ ~tui.m.searching
    /\ tui.m.output # <<>>
    /\ tui.m.copyMsg # <<>>
    /\ tui.m.statusMsg # <<>>
    /\ Toggled(tui.m) > 0

\* C39: with the command input panel focused and search mode off, a printable
\* key is typed into the command and changes nothing else: it does not quit,
\* copy, reset or apply, and it is not dropped.
C39_PrintableKeysAreTyped ==
    (tui.m.focused = panelInput /\ ~tui.m.searching
        /\ Len(tui.m.cmdInput.value) < tui.m.cmdInput.CharLimit) =>
        \A k \in PrintableKeys : \A env \in EnvOf(tui.m, k) :
            /\ handleKey(tui.m, k, env).cmd # "quit"
            /\ PressIn(tui.m, k, env)
                   = [tui.m EXCEPT !.cmdInput.value = Append(@, k)]


\* Every key the bindings name, every printable key, and Ctrl+C.
AllKeys == UNION {keys[b] : b \in DOMAIN keys} \cup PrintableKeys

\* C34: in search mode every key but ctrl+c goes to the search handler: only
\* ctrl+c quits, Esc or Enter leaves search mode, any other key edits the
\* query and recomputes the filtered list with the cursor at 0; no key changes
\* the focus, a modifier toggle or the output, or runs the obfuscation.
C34_SearchModeCapturesKeys ==
    tui.m.searching =>
        \A k \in AllKeys :
            LET r == handleKey(tui.m, k, NoEnv)
            IN  /\ (r.cmd = "quit") <=> (k = "ctrl+c")
                /\ k \in {"esc", "enter"} => ~r.m.searching
                /\ k \notin {"esc", "enter", "ctrl+c"} =>
                      /\ r.m.searching
                      /\ r.m.searchInput = TextInputUpdate(tui.m.searchInput, k)
                      /\ r.m.filtered = applyFilter(r.m).filtered
                      /\ r.m.exeCursor = 0
                /\ r.m.focused = tui.m.focused
                /\ r.m.modifiers = tui.m.modifiers
                /\ r.m.output = tui.m.output
                /\ r.printed = <<>>

\* The keys that select an executable in model m.
Selects(m, k) ==
    LET n == Press(m, k)
    IN  \/ /\ ~m.searching
           /\ m.focused = panelSidebar
           /\ \/ k \in keys.Up \cup keys.Down /\ n.exeCursor # m.exeCursor
              \/ k \in keys.Left \cup keys.Right /\ Len(n.filtered) > 0
        \/ /\ m.searching
           /\ k \in {"esc", "enter"}
           /\ Len(n.filtered) > 0

\* The options of m are the defaults of the executable it has selected.
OptionsReset(m) ==
    /\ m.selected \in 1..Len(m.allExes)
    /\ \A i \in 1..Len(m.modifiers) :
          m.modifiers[i].Enabled <=>
              /\ Len(m.allExes[m.selected].Profiles) > 0
              /\ m.modifiers[i].Name
                     \in DOMAIN m.allExes[m.selected].Profiles[1].Parameters.Modifiers
    /\ m.modCursor = 0
    /\ m.output = <<>>
    /\ m.copyMsg = <<>>
    /\ m.statusMsg = <<>>

C37_SelectedIsHighlighted ==
    (~tui.m.searching /\ Len(tui.m.filtered) > 0) =>
        /\ tui.m.exeCursor \in 0..(Len(tui.m.filtered) - 1)
        /\ tui.m.selected = tui.m.filtered[tui.m.exeCursor + 1]

\* After a search the list is a proper part of the executables that does not
\* start at the first, and the cursor was moved down it.
C37_Witness ==
    /\ ~tui.m.searching
    /\ tui.m.searchInput.value # <<>>
    /\ Len(tui.m.filtered) > 1
    /\ tui.m.filtered[1] # 1
    /\ tui.m.exeCursor > 0

\* C38: after any keys and window resizes the cursor row of the sidebar lies
\* in the visible window of the list:
\* 0 <= exeOffset <= exeCursor < exeOffset + sidebarListHeight().
C38_CursorRowVisible ==
    /\ tui.m.exeOffset >= 0
    /\ tui.m.exeOffset <= tui.m.exeCursor
    /\ tui.m.exeCursor < tui.m.exeOffset + sidebarListHeight(tui.m)

====
